---- MODULE Spec2Model ----
(***************************************************************************)
(* Model of the on-chain payment verification of promptr (src/app.js):     *)
(* verifyUSDCTransfer and the helpers it calls.  One call of the async     *)
(* function is a process whose steps are the code between two awaits; the  *)
(* answers of the chain node, of the raw RPC endpoint and of the           *)
(* facilitator are inputs drawn from small sets.                           *)
(***************************************************************************)
EXTENDS Integers, Sequences, FiniteSets, TLC

VARIABLES
  pc,             \* position of the running verifyUSDCTransfer call
  senderAddress,  \* the claimed sender passed to the call
  sigStatus,      \* answer of connection.getSignatureStatuses
  parsedResp,     \* answer of connection.getParsedTransaction
  rawResp,        \* answer of heliusRpcPost('getTransaction', ...)
  facResp,        \* answer of the facilitator POST
  tx,             \* the transaction record the scans read
  via,            \* the return statement that produced a Confirmed verdict
  verdict,        \* value returned by the call: "true", "false", "null"
  calls,          \* number of network / store calls issued by this call
  txId,           \* the transaction reference passed to the call
  logged,         \* the logToDB calls of this call, in order
  prev,           \* history: inputs and verdict of the call before this one
  other,          \* locals of a second verifyUSDCTransfer call, suspended at an await
  gate,           \* the request being served by the /prompt handler
  proxy,          \* the request being served by POST /rpc/getAccountInfo
  db,             \* pool, dbAvailable and the purchases table
  page            \* the browser page: wallet, provider and the submit handler

\* the locals of the running verifyUSDCTransfer call, and its history
verifyVars == <<pc, senderAddress, sigStatus, parsedResp, rawResp, facResp, tx,
                via, verdict, calls, txId, logged, prev>>

\* what a verifyUSDCTransfer call never writes
serverVars == <<other, gate, proxy, db, page>>

vars == <<pc, senderAddress, sigStatus, parsedResp, rawResp, facResp, tx,
          via, verdict, calls, txId, logged, prev, other, gate, proxy, db,
          page>>

-----------------------------------------------------------------------------
(* Bounds of the drawn inputs *)

\* total number of balance entries and instructions in a drawn transaction
MaxEntries == 3
\* longest pre-balance list
MaxPre == 2
\* largest number of top-level instructions
MaxInsts == 1
\* largest number of inner instructions (in one inner-instruction group)
MaxInner == 1

-----------------------------------------------------------------------------
(* Addresses, mints, amounts *)

Nil == "nil"                      \* undefined / null / absent field

USDC_MINT == "USDC"
OTHER_MINT == "OTHERMINT"

X402_RECEIVER_ADDRESS == "RECV"   \* receiver wallet
RECV_ATA == "RECV_ATA"            \* receiver's ATA for USDC_MINT
RECV_TOK2 == "RECV_TOK2"          \* receiver's token account of OTHER_MINT
SENDER == "SENDER"                \* a well-formed sender wallet
SENDER_ATA == "SENDER_ATA"        \* its ATA for USDC_MINT
BAD_SENDER == "BAD_SENDER"        \* a string that is not a public key
THIRD_ACCT == "THIRD_ACCT"        \* a third party's token account
RECV_AUX == "RECV_AUX"            \* a USDC account of the receiver, not the ATA
THIRD_OWNER == "THIRD_OWNER"      \* a third party's wallet

\* the strings the verifier computes ATAs for
Wallets == {X402_RECEIVER_ADDRESS, SENDER}

\* a derivation that asks the chain node for the account, and so fails when
\* the node does
getAssociatedTokenAddressSync_ViaRpc(mint, owner) ==
  IF owner \notin Wallets THEN "throw"
  ELSE IF "throw" \in {sigStatus.kind, parsedResp.kind, rawResp.kind} THEN "throw"
  ELSE IF mint = USDC_MINT
       THEN (IF owner = X402_RECEIVER_ADDRESS THEN RECV_ATA ELSE SENDER_ATA)
       ELSE (IF owner = X402_RECEIVER_ADDRESS THEN RECV_TOK2 ELSE "SENDER_TOK2")

\* PublicKey.findProgramAddressSync over (owner, token program, mint):
\* a function of its inputs; new PublicKey(x) throws on a malformed string
getAssociatedTokenAddressSync(mint, owner) ==
  IF owner \notin Wallets THEN "throw"
  ELSE IF mint = USDC_MINT
       THEN (IF owner = X402_RECEIVER_ADDRESS THEN RECV_ATA ELSE SENDER_ATA)
       ELSE (IF owner = X402_RECEIVER_ADDRESS THEN RECV_TOK2 ELSE "SENDER_TOK2")

\* try { ... } catch { } around the derivation: null when it throws
AtaOrNull(owner) ==
  LET a == getAssociatedTokenAddressSync(USDC_MINT, owner)
  IN  IF a = "throw" THEN Nil ELSE a

\* parseFloat(process.env.X402_AMOUNT_USDC || '0.001') * 1_000_000, floored
amountAtomic == 1000

\* uiTokenAmount.amount / info.amount are strings; the model keeps the number
\* a decimal string denotes, and two codes for the other strings
AbsentAmt == -2                   \* field missing or ''  (the code reads '0')
NonNumeric == -1                  \* a string BigInt() rejects

\* BigInt(x || '0') throws a SyntaxError on a string that is not an integer
BigIntThrows(a) == a = NonNumeric

\* BigInt(x || '0') when it does not throw
BigIntOf(a) == IF a = AbsentAmt THEN 0 ELSE a

-----------------------------------------------------------------------------
(* Transactions *)

\* tx.transaction.message.accountKeys of a transaction that has a message:
\* entries are strings or objects with a pubkey field
accountKeys ==
  << [isString |-> FALSE, pubkey |-> SENDER_ATA],
     [isString |-> FALSE, pubkey |-> RECV_ATA],
     [isString |-> TRUE,  pubkey |-> RECV_TOK2],
     [isString |-> TRUE,  pubkey |-> THIRD_ACCT],
     [isString |-> FALSE, pubkey |-> RECV_AUX] >>

NoIndex == -1                     \* accountIndex == null

Bal(pubkey, accountIndex, accountId, account, owner, mint, amount) ==
  [pubkey |-> pubkey, accountIndex |-> accountIndex, accountId |-> accountId,
   account |-> account, owner |-> owner, mint |-> mint, amount |-> amount]

\* post-balance entries a provider can return
PostEntries ==
  { Bal(Nil, 1, Nil, Nil, X402_RECEIVER_ADDRESS, USDC_MINT, 1000),
    Bal(Nil, 4, Nil, Nil, X402_RECEIVER_ADDRESS, USDC_MINT, 1500),
    Bal(RECV_ATA, NoIndex, Nil, Nil, Nil, USDC_MINT, 1500),
    Bal(Nil, NoIndex, X402_RECEIVER_ADDRESS, Nil, Nil, USDC_MINT, 1500),
    Bal(Nil, 3, Nil, Nil, THIRD_OWNER, USDC_MINT, 1500),
    Bal(Nil, 2, Nil, Nil, X402_RECEIVER_ADDRESS, OTHER_MINT, 1500),
    Bal(Nil, 1, Nil, Nil, X402_RECEIVER_ADDRESS, USDC_MINT, NonNumeric) }

\* pre-balance entries a provider can return
PreEntries ==
  { Bal(Nil, 1, Nil, Nil, X402_RECEIVER_ADDRESS, USDC_MINT, 500),
    Bal(Nil, 2, Nil, Nil, X402_RECEIVER_ADDRESS, OTHER_MINT, 0),
    Bal(Nil, 2, Nil, Nil, X402_RECEIVER_ADDRESS, OTHER_MINT, 1500),
    Bal(Nil, 3, Nil, Nil, THIRD_OWNER, USDC_MINT, 500) }

Inst(parsed, type, mint, amount, source, from, account, destination, to) ==
  [parsed |-> parsed, type |-> type, mint |-> mint, amount |-> amount,
   source |-> source, from |-> from, account |-> account,
   destination |-> destination, to |-> to]

\* top-level instructions a provider can return
Instructions ==
  { Inst(TRUE, "transferChecked", USDC_MINT, 1000, SENDER_ATA, Nil, Nil, RECV_ATA, Nil),
    Inst(TRUE, "transfer", USDC_MINT, 1500, Nil, SENDER, Nil, Nil, X402_RECEIVER_ADDRESS),
    Inst(TRUE, "transferChecked", USDC_MINT, 500, SENDER_ATA, Nil, Nil, RECV_ATA, Nil),
    Inst(TRUE, "transferChecked", USDC_MINT, 1000, THIRD_ACCT, Nil, Nil, RECV_ATA, Nil),
    Inst(TRUE, "transfer", USDC_MINT, NonNumeric, SENDER_ATA, Nil, Nil, RECV_ATA, Nil),
    Inst(FALSE, Nil, Nil, AbsentAmt, Nil, Nil, Nil, Nil, Nil) }

\* inner instructions a provider can return
InnerInstructions ==
  { Inst(TRUE, "transferChecked", USDC_MINT, 1000, SENDER_ATA, Nil, Nil, RECV_ATA, Nil),
    Inst(TRUE, "transferChecked", USDC_MINT, 1000, THIRD_ACCT, Nil, Nil, RECV_ATA, Nil),
    Inst(TRUE, "transfer", USDC_MINT, 500, SENDER_ATA, Nil, Nil, Nil, X402_RECEIVER_ADDRESS),
    Inst(TRUE, "closeAccount", Nil, NonNumeric, Nil, Nil, RECV_ATA, Nil, Nil) }

NoTx ==
  [present |-> FALSE, hasMessage |-> FALSE, metaErr |-> FALSE,
   pre |-> <<>>, post |-> <<>>, insts |-> <<>>, inner |-> <<>>]

\* the token account a balance entry is about
AccountOf(e) ==
  IF e.pubkey # Nil THEN e.pubkey
  ELSE IF e.accountIndex # NoIndex THEN accountKeys[e.accountIndex + 1].pubkey
  ELSE IF e.accountId # Nil THEN e.accountId ELSE e.account

\* balance lists of n entries: a token account has at most one entry in a list
BalanceLists(entries, n) ==
  { s \in [1..n -> entries] :
      \A i, j \in 1..n : i < j => AccountOf(s[i]) # AccountOf(s[j]) }

\* inner-instruction groups holding d instructions
InnerOf(d) ==
  IF d = 0 THEN {<<>>}
  ELSE { << [instructions |-> s] >> : s \in [1..d -> InnerInstructions] }

\* an irregular record (failed transaction, missing message) counts as one
\* entry of the size bound
Irregular(hm, me) == (IF hm THEN 0 ELSE 1) + (IF me THEN 1 ELSE 0)

\* list lengths and flags of the drawn transactions
TxShapes ==
  { l \in (0..MaxEntries) \X (0..MaxPre) \X (0..MaxInsts) \X (0..MaxInner)
          \X BOOLEAN \X BOOLEAN :
      /\ l[1] + l[2] + l[3] + l[4] + Irregular(l[5], l[6]) <= MaxEntries
      /\ (~l[5] => l[3] = 0) }

\* the records getParsedTransaction / getTransaction can return
Transactions ==
  LET posts == [n \in 0..MaxEntries |-> BalanceLists(PostEntries, n)]
      pres  == [n \in 0..MaxPre |-> BalanceLists(PreEntries, n)]
  IN  UNION { { [present |-> TRUE, hasMessage |-> l[5], metaErr |-> l[6],
                 pre |-> pr, post |-> po, insts |-> ins, inner |-> inn] :
                  po \in posts[l[1]], pr \in pres[l[2]],
                  ins \in [1..l[3] -> Instructions], inn \in InnerOf(l[4]) } :
              l \in TxShapes }

\* number of entries of a record, as the size bound counts them
TxSize(t) ==
  Len(t.post) + Len(t.pre) + Len(t.insts)
    + (IF t.inner = <<>> THEN 0 ELSE Len(t.inner[1].instructions))
    + Irregular(t.hasMessage, t.metaErr)

\* the records drawn for the raw getTransaction fallback: one entry fewer
RawTransactions == { t \in Transactions : TxSize(t) < MaxEntries }

-----------------------------------------------------------------------------
(* Step 5: balance-diff scan *)

\* helper to resolve account pubkey from token balance entry; "throw" is the
\* TypeError of reading accountKeys of a transaction without a message
resolveAccountPubkey(t, entry) ==
  IF entry.pubkey # Nil THEN entry.pubkey
  ELSE IF entry.accountIndex # NoIndex
       THEN IF ~t.hasMessage THEN "throw"
            ELSE IF (entry.accountIndex + 1) \notin DOMAIN accountKeys THEN Nil
            ELSE accountKeys[entry.accountIndex + 1].pubkey
       ELSE IF entry.accountId # Nil THEN entry.accountId ELSE entry.account

\* pre.find(x => (x.owner || null) === ownerField): index of the first hit, 0
\* when there is none
RECURSIVE FindPreByOwner(_, _, _)
FindPreByOwner(pre, k, ownerField) ==
  IF k > Len(pre) THEN 0
  ELSE IF pre[k].owner = ownerField THEN k
  ELSE FindPreByOwner(pre, k + 1, ownerField)

\* pre.find(x => resolveAccountPubkey(x) === accountPubkey): index of the
\* first hit, 0 when there is none, -1 when resolving an entry throws first
RECURSIVE FindPreByAccount(_, _, _)
FindPreByAccount(t, k, accountPubkey) ==
  IF k > Len(t.pre) THEN 0
  ELSE LET r == resolveAccountPubkey(t, t.pre[k])
       IN  IF r = "throw" THEN -1
           ELSE IF r = accountPubkey THEN k
           ELSE FindPreByAccount(t, k + 1, accountPubkey)

\* PreEntryFor without the owner test: only the resolved account decides
PreEntryFor_AccountOnly(t, p, accountPubkey, receiverATA) ==
  LET receiver == X402_RECEIVER_ADDRESS
  IN  IF receiverATA # Nil
         /\ (accountPubkey = receiverATA \/ accountPubkey = receiver)
        THEN FindPreByAccount(t, 1, accountPubkey)
      ELSE -2

\* "Decide which pre-entry to compare against": the index of the pre entry,
\* 0 for the zero default, -1 on a throw, -2 when the post entry is not
\* receiver-related
PreEntryFor(t, p, accountPubkey, receiverATA) ==
  LET receiver == X402_RECEIVER_ADDRESS
  IN  IF p.owner # Nil /\ p.owner = receiver
        THEN FindPreByOwner(t.pre, 1, p.owner)
      ELSE IF receiverATA # Nil
              /\ (accountPubkey = receiverATA \/ accountPubkey = receiver)
        THEN FindPreByAccount(t, 1, accountPubkey)
      ELSE IF accountPubkey # Nil /\ accountPubkey = receiver
        THEN FindPreByAccount(t, 1, accountPubkey)
      ELSE -2

\* an exact-match test of the difference
DiffQualifies_Exact(postAmount, preAmount) == postAmount - preAmount = amountAtomic

\* diff >= amountAtomic
DiffQualifies(postAmount, preAmount) == postAmount - preAmount >= amountAtomic

\* body of the loop over post for one entry: "skip" (continue), "throw"
\* (caught by the per-entry try), "qualify" or "below"
PostEntryOutcome(t, p) ==
  IF p.mint # USDC_MINT THEN "skip"
  ELSE
    LET accountPubkey == resolveAccountPubkey(t, p)
        receiverATA   == AtaOrNull(X402_RECEIVER_ADDRESS)
    IN  IF accountPubkey = "throw" \/ BigIntThrows(p.amount) THEN "throw"
        ELSE
          LET k == PreEntryFor(t, p, accountPubkey, receiverATA)
          IN  IF k = -2 THEN "skip"
              ELSE IF k = -1 THEN "throw"
              ELSE IF k > 0 /\ BigIntThrows(t.pre[k].amount) THEN "throw"
              ELSE
                LET preAmount == IF k = 0 THEN 0 ELSE BigIntOf(t.pre[k].amount)
                IN  IF DiffQualifies(BigIntOf(p.amount), preAmount)
                      THEN "qualify" ELSE "below"

\* FirstQualifying that gives up at the first entry that throws
RECURSIVE FirstQualifying_StopAtThrow(_, _)
FirstQualifying_StopAtThrow(t, i) ==
  IF i > Len(t.post) THEN 0
  ELSE IF PostEntryOutcome(t, t.post[i]) = "qualify" THEN i
  ELSE IF PostEntryOutcome(t, t.post[i]) = "throw" THEN 0
  ELSE FirstQualifying_StopAtThrow(t, i + 1)

\* index of the first post entry whose diff reaches the threshold, 0 if none
RECURSIVE FirstQualifying(_, _)
FirstQualifying(t, i) ==
  IF i > Len(t.post) THEN 0
  ELSE IF PostEntryOutcome(t, t.post[i]) = "qualify" THEN i
  ELSE FirstQualifying(t, i + 1)

-----------------------------------------------------------------------------
(* Steps 7 and 8: instruction scans *)

IsTransfer(inst) == inst.type = "transfer" \/ inst.type = "transferChecked"

\* a || b || c || null
Or3(a, b, c) == IF a # Nil THEN a ELSE IF b # Nil THEN b ELSE c

\* InstOutcomeA without the test of the source
InstOutcomeA_AnySource(inst, sender) ==
  IF ~inst.parsed \/ ~IsTransfer(inst) THEN "skip"
  ELSE IF BigIntThrows(inst.amount) THEN "throw"
  ELSE
    LET dest == Or3(inst.destination, inst.to, inst.account)
    IN  IF inst.mint = USDC_MINT /\ BigIntOf(inst.amount) >= amountAtomic
           /\ dest \in {AtaOrNull(X402_RECEIVER_ADDRESS), X402_RECEIVER_ADDRESS}
          THEN "match" ELSE "nomatch"

\* one top-level instruction: "skip", "throw", "match" or "nomatch"
InstOutcomeA(inst, sender) ==
  IF ~inst.parsed \/ ~IsTransfer(inst) THEN "skip"
  ELSE IF BigIntThrows(inst.amount) THEN "throw"
  ELSE
    LET amt         == BigIntOf(inst.amount)
        src         == Or3(inst.source, inst.from, inst.account)
        dest        == Or3(inst.destination, inst.to, inst.account)
        receiver    == X402_RECEIVER_ADDRESS
        receiverATA == AtaOrNull(receiver)
        senderATA   == AtaOrNull(sender)
    IN  IF inst.mint = USDC_MINT /\ amt >= amountAtomic
           /\ (  (senderATA # Nil /\ src = senderATA
                    /\ (dest = receiverATA \/ dest = receiver))
               \/ (src = sender /\ (dest = receiverATA \/ dest = receiver)) )
          THEN "match" ELSE "nomatch"

\* the loop over insts: "match" at the first matching instruction, "throw" if
\* an instruction throws before any matched, "none" otherwise
RECURSIVE ScanInstructions(_, _, _)
ScanInstructions(insts, i, sender) ==
  IF i > Len(insts) THEN "none"
  ELSE LET o == InstOutcomeA(insts[i], sender)
       IN  IF o \in {"match", "throw"} THEN o
           ELSE ScanInstructions(insts, i + 1, sender)

\* one inner instruction: "skip", "throw", "match" or "nomatch"
InstOutcomeB(inst) ==
  IF ~inst.parsed THEN "skip"
  ELSE IF BigIntThrows(inst.amount) THEN "throw"
  ELSE
    LET amt         == BigIntOf(inst.amount)
        dest        == Or3(inst.destination, inst.account, inst.to)
        receiver    == X402_RECEIVER_ADDRESS
        receiverATA == AtaOrNull(receiver)
    IN  IF IsTransfer(inst) /\ inst.mint = USDC_MINT /\ amt >= amountAtomic
           /\ (dest = receiverATA \/ dest = receiver)
          THEN "match" ELSE "nomatch"

\* the instructions of all groups, in the order the nested loops visit them
RECURSIVE FlattenInner(_, _)
FlattenInner(inner, s) ==
  IF s > Len(inner) THEN <<>>
  ELSE inner[s].instructions \o FlattenInner(inner, s + 1)

RECURSIVE ScanFlat(_, _)
ScanFlat(flat, i) ==
  IF i > Len(flat) THEN "none"
  ELSE LET o == InstOutcomeB(flat[i])
       IN  IF o \in {"match", "throw"} THEN o ELSE ScanFlat(flat, i + 1)

\* the try block over tx.meta.innerInstructions
ScanInnerInstructions(t) == ScanFlat(FlattenInner(t.inner, 1), 1)

-----------------------------------------------------------------------------
(* Answers of the collaborators *)

\* messages of the errors a network call can throw ("" is an error without a
\* message, as an AggregateError of a refused connection)
ErrMessages ==
  { "Request failed with status code 429", "too many requests",
    "rate limit exceeded", "socket hang up", "" }

\* msg.includes('429') || /Too Many Requests/i.test(msg) || msg.includes('rate limit')
IsRateLimited(msg) ==
  \/ msg \in {"Request failed with status code 429"}
  \/ msg \in {"too many requests"}
  \/ msg \in {"rate limit exceeded"}

NoResp == [kind |-> "none", message |-> Nil, err |-> FALSE,
           confirmationStatus |-> Nil, isString |-> FALSE]

Resp(kind, message, err, cs, isString) ==
  [kind |-> kind, message |-> message, err |-> err,
   confirmationStatus |-> cs, isString |-> isString]

ConfirmationStatuses == {Nil, "processed", "confirmed", "finalized"}

\* connection.getSignatureStatuses: throws, or value[0] is null or a status
StatusResponses ==
     { Resp("throw", m, FALSE, Nil, FALSE) : m \in ErrMessages }
  \cup { Resp("null", Nil, FALSE, Nil, FALSE) }
  \cup { Resp("status", Nil, e, cs, FALSE) :
            e \in BOOLEAN, cs \in ConfirmationStatuses }

\* connection.getParsedTransaction: throws, or returns null or a transaction
ParsedResponses ==
     { Resp("throw", m, FALSE, Nil, FALSE) : m \in ErrMessages }
  \cup { Resp("null", Nil, FALSE, Nil, FALSE), Resp("tx", Nil, FALSE, Nil, FALSE) }

\* heliusRpcPost('getTransaction'): axios throws an Error (or a bare string),
\* or the body carries error, result, or neither
RawResponses ==
     { Resp("throw", m, FALSE, Nil, str) : m \in ErrMessages, str \in BOOLEAN }
  \cup { Resp("error", Nil, FALSE, Nil, FALSE), Resp("empty", Nil, FALSE, Nil, FALSE),
         Resp("result", Nil, FALSE, Nil, FALSE) }

\* facilitator POST: valid true, valid false, a body without the valid field,
\* no body at all, or a thrown error (network failure, non-2xx)
FacResponses == {"valid", "invalid", "novalid", "nodata", "throw"}

\* claimed senders a client can send
Senders == {SENDER, BAD_SENDER}

NoCalls == [status |-> 0, parsed |-> 0, raw |-> 0, fac |-> 0,
            logOk |-> 0, logFail |-> 0]

\* transaction references a client can send
TxIds == {"SIG_1"}

\* logToDB('payment', details, statut): the row handed to the store
LogRow(statut, id, sender, receiver, status) ==
  [type |-> "payment", statut |-> statut, txId |-> id, sender |-> sender,
   receiver |-> receiver, status |-> status]

NoPrev ==
  [valid |-> FALSE, txId |-> Nil, senderAddress |-> Nil, sigStatus |-> NoResp,
   tx |-> NoTx, facResp |-> Nil, verdict |-> Nil]

\* the locals of a call that has not been entered
NoLocals ==
  [pc |-> "idle", senderAddress |-> Nil, sigStatus |-> NoResp,
   parsedResp |-> NoResp, rawResp |-> NoResp, facResp |-> Nil, tx |-> NoTx,
   via |-> Nil, verdict |-> Nil, calls |-> NoCalls, txId |-> Nil,
   logged |-> <<>>]

\* no /prompt request is being served
NoGate ==
  [pc |-> "idle", txId |-> Nil, sender |-> Nil, fac |-> Nil, attempts |-> 0,
   result |-> Nil, llm |-> 0, http |-> Nil, body |-> Nil]

\* String.prototype.includes
Includes(m, s) ==
  \E i \in 1..(Len(m) - Len(s) + 1) : SubSeq(m, i, i + Len(s) - 1) = s

\* req.body.pubkey: absent, the empty string, or an address
ProxyPubkeys == {Nil, "", SENDER, X402_RECEIVER_ADDRESS}

\* the code field of an RPC error body: a number, a string, or absent
ErrorCode(t, n) == [t |-> t, n |-> n]

ErrorCodes ==
  { ErrorCode("number", 403), ErrorCode("number", -32602),
    ErrorCode("string", 403), ErrorCode("absent", 0) }

\* result.value of getAccountInfo
Account(lamports, owner, executable, data) ==
  [null |-> FALSE, lamports |-> lamports, owner |-> owner,
   executable |-> executable, data |-> data]

\* result.value is null: no such account
NullAccount ==
  [null |-> TRUE, lamports |-> 0, owner |-> Nil, executable |-> Nil, data |-> Nil]

Accounts ==
  { Account(l, o, e, d) : l \in {0, 2039280}, o \in {Nil, "TokenkegQfeZyiNwAJbNbGKPFXCWuBvf9Ss623VQ5DA"},
                          e \in {Nil, "false", "true"},
                          d \in {Nil, "base64string", "array"} }

\* what heliusRpcPost('getAccountInfo') gives: a body with error, a body with
\* result.value null or an account, or the axios error thrown again
RpcAnswer(kind, code, message, value) ==
  [kind |-> kind, code |-> code, message |-> message, value |-> value]

\* no answer yet
NoAnswer == RpcAnswer("none", ErrorCode("absent", 0), Nil, NullAccount)

ProxyAnswers ==
     { RpcAnswer("error", c, m, NullAccount) :
         c \in ErrorCodes, m \in {Nil, "Forbidden"} }
  \cup { RpcAnswer("result", ErrorCode("absent", 0), Nil, v) :
            v \in Accounts \cup {NullAccount} }
  \cup { RpcAnswer("throw", ErrorCode("absent", 0), m, NullAccount) :
            m \in { "Request failed with status code 403",
                    "Request failed with status code 429",
                    "timeout of 14030ms exceeded", "socket hang up", "" } }

\* no /rpc/getAccountInfo request is being served
NoProxy ==
  [pc |-> "idle", pubkey |-> Nil, rpc |-> NoAnswer, rpcCalls |-> 0,
   logged |-> 0, http |-> Nil, body |-> Nil]

\* a field that is not supplied (JavaScript undefined); Nil stands for null
Undefined == "undefined"

\* rows the model lets the table hold
MaxRows == 2

\* no call of a store function has been made
NoStoreCall == [op |-> "none", id |-> 0, updates |-> Undefined, queries |-> 0]

\* let pool = null; let dbAvailable = false: the store before the pool is
\* created; purchases and logs are the rows of the two tables, last the
\* latest call of a store function with the number of pool.query calls it
\* made
NoDb ==
  [pool |-> FALSE, dbAvailable |-> FALSE, init |-> "pending",
   purchases |-> <<>>, logs |-> <<>>, last |-> NoStoreCall]

\* no answer of POST /rpc/simulateTransaction yet
NoSim == [kind |-> "none", error |-> FALSE, valueErr |-> FALSE]

\* the page as loaded: let wallet = null; let provider = null; the connect
\* button shown, the form hidden.  phantom is window.solana.publicKey; the
\* other fields are the submit handler in flight: its position, the answers
\* it got, the calls it made, the fee payer it set, the account that signed
\* and the senderAddress of the body posted to /prompt
NoPage ==
  [wallet |-> Nil, provider |-> FALSE, phantom |-> Nil,
   connecting |-> FALSE, disconnecting |-> FALSE,
   connectShown |-> TRUE, formShown |-> FALSE, linkShown |-> FALSE,
   pc |-> "idle", disabled |-> FALSE, failed |-> FALSE,
   blockhash |-> Nil, sim |-> NoSim, feePayer |-> Nil,
   signCalls |-> 0, signer |-> Nil, signature |-> Nil,
   promptCalls |-> 0, sent |-> Undefined]

-----------------------------------------------------------------------------
(* verifyUSDCTransfer *)

Init ==
  /\ pc = "idle"
  /\ senderAddress = Nil
  /\ sigStatus = NoResp
  /\ parsedResp = NoResp
  /\ rawResp = NoResp
  /\ facResp = Nil
  /\ tx = NoTx
  /\ via = Nil
  /\ verdict = Nil
  /\ calls = NoCalls
  /\ txId = Nil
  /\ logged = <<>>
  /\ prev = NoPrev
  /\ other = NoLocals
  /\ gate = NoGate
  /\ proxy = NoProxy
  /\ db = NoDb
  /\ page = NoPage

\* return v
Return(v) == pc' = "done" /\ verdict' = v

\* entry of verifyUSDCTransfer(txId, senderAddress) with arguments drawn from
\* ids and senders; h is the history kept of the call that ended
Enter(ids, senders, h) ==
  /\ pc \in {"idle", "done"}
  /\ \E s \in senders : senderAddress' = s
  /\ \E id \in ids : txId' = id
  /\ pc' = "getSignatureStatuses"
  /\ sigStatus' = NoResp /\ parsedResp' = NoResp /\ rawResp' = NoResp
  /\ facResp' = Nil /\ tx' = NoTx /\ via' = Nil /\ verdict' = Nil
  /\ calls' = NoCalls
  /\ logged' = <<>>
  /\ prev' = h

\* a request handler calls verifyUSDCTransfer(txId, senderAddress)
Call == Enter(TxIds, Senders, prev) /\ UNCHANGED serverVars

\* StatusOutcome without the "if (sigStatus.err)" test
StatusOutcome_NoErrTest(r) ==
  IF r.kind = "throw" THEN "null"
  ELSE IF r.kind = "null" THEN "null"
  ELSE IF r.confirmationStatus = Nil
          \/ (r.confirmationStatus # "confirmed" /\ r.confirmationStatus # "finalized")
    THEN "null"
  ELSE "fetch"

\* StatusOutcome that only waits while confirmationStatus is missing
StatusOutcome_AnyLevel(r) ==
  IF r.kind = "throw" THEN "null"
  ELSE IF r.kind = "null" THEN "null"
  ELSE IF r.err THEN "false"
  ELSE IF r.confirmationStatus = Nil THEN "null"
  ELSE "fetch"

\* Step 1, what the code does with the answer r of getSignatureStatuses:
\* "null" / "false" (returned) or "fetch" (go on to step 2)
StatusOutcome(r) ==
  IF r.kind = "throw" THEN "null"
  ELSE IF r.kind = "null" THEN "null"
  ELSE IF r.err THEN "false"
  ELSE IF r.confirmationStatus = Nil
          \/ (r.confirmationStatus # "confirmed" /\ r.confirmationStatus # "finalized")
    THEN "null"
  ELSE "fetch"

\* Step 1 with the answer drawn from R
GetSignatureStatusesFrom(R) ==
  /\ pc = "getSignatureStatuses"
  /\ \E r \in R :
       /\ sigStatus' = r
       /\ calls' = [calls EXCEPT !.status = @ + 1]
       /\ LET o == StatusOutcome(r)
          IN  IF o = "fetch" THEN pc' = "getParsedTransaction" /\ verdict' = verdict
              ELSE Return(o)
  /\ UNCHANGED <<senderAddress, parsedResp, rawResp, facResp, tx, via>>
  /\ UNCHANGED <<txId, logged, prev>>
  /\ UNCHANGED serverVars

\* Step 1: check signature status first
GetSignatureStatuses == GetSignatureStatusesFrom(StatusResponses)

\* TxOutcome that tests tx.meta.err only after the balance scan
TxOutcome_LateErrTest(t, sender) ==
  IF FirstQualifying(t, 1) > 0 THEN "facilitator"
  ELSE IF t.metaErr THEN "false"
  ELSE IF ~t.hasMessage THEN "catch"
  ELSE
    LET a == ScanInstructions(t.insts, 1, sender)
    IN  IF a = "match" THEN "logA"
        ELSE IF a = "throw" THEN "catch"
        ELSE IF ScanInnerInstructions(t) = "match" THEN "logB"
        ELSE "false"

\* TxOutcome that scans the top-level instructions before the balances
TxOutcome_InstructionsFirst(t, sender) ==
  IF t.metaErr THEN "false"
  ELSE IF t.hasMessage /\ ScanInstructions(t.insts, 1, sender) = "match" THEN "logA"
  ELSE IF FirstQualifying(t, 1) > 0 THEN "facilitator"
  ELSE IF ~t.hasMessage THEN "catch"
  ELSE IF ScanInstructions(t.insts, 1, sender) = "throw" THEN "catch"
  ELSE IF ScanInnerInstructions(t) = "match" THEN "logB"
  ELSE "false"

\* TxOutcome that refuses a transaction the call before confirmed
TxOutcome_SpendOnce(t, sender) ==
  IF t.metaErr THEN "false"
  ELSE IF prev.valid /\ prev.verdict = "true" /\ prev.tx = t THEN "false"
  ELSE IF FirstQualifying(t, 1) > 0 THEN "facilitator"
  ELSE IF ~t.hasMessage THEN "catch"
  ELSE
    LET a == ScanInstructions(t.insts, 1, sender)
    IN  IF a = "match" THEN "logA"
        ELSE IF a = "throw" THEN "catch"
        ELSE IF ScanInnerInstructions(t) = "match" THEN "logB"
        ELSE "false"

\* TxOutcome that leaves through the outer catch when nothing matched
TxOutcome_CatchOnMiss(t, sender) ==
  IF t.metaErr THEN "false"
  ELSE IF FirstQualifying(t, 1) > 0 THEN "facilitator"
  ELSE IF ~t.hasMessage THEN "catch"
  ELSE
    LET a == ScanInstructions(t.insts, 1, sender)
    IN  IF a = "match" THEN "logA"
        ELSE IF a = "throw" THEN "catch"
        ELSE IF ScanInnerInstructions(t) = "match" THEN "logB"
        ELSE "catch"

\* TxOutcome in which the derivation of the sender's token account is not
\* wrapped in a try: a sender that is not a public key leaves through the
\* outer catch
TxOutcome_SenderAtaUnguarded(t, sender) ==
  IF t.metaErr THEN "false"
  ELSE IF getAssociatedTokenAddressSync(USDC_MINT, sender) = "throw" THEN "catch"
  ELSE IF FirstQualifying(t, 1) > 0 THEN "facilitator"
  ELSE IF ~t.hasMessage THEN "catch"
  ELSE
    LET a == ScanInstructions(t.insts, 1, sender)
    IN  IF a = "match" THEN "logA"
        ELSE IF a = "throw" THEN "catch"
        ELSE IF ScanInnerInstructions(t) = "match" THEN "logB"
        ELSE "false"

\* the code from "if (tx.meta?.err)" to the next await or return, for the
\* fetched transaction t: "false" (returned), "facilitator" (a balance entry
\* qualified), "logA" / "logB" (an instruction matched), "catch" (outer catch)
TxOutcome(t, sender) ==
  IF t.metaErr THEN "false"
  ELSE IF FirstQualifying(t, 1) > 0 THEN "facilitator"
  ELSE IF ~t.hasMessage THEN "catch"
  ELSE
    LET a == ScanInstructions(t.insts, 1, sender)
    IN  IF a = "match" THEN "logA"
        ELSE IF a = "throw" THEN "catch"
        ELSE IF ScanInnerInstructions(t) = "match" THEN "logB"
        ELSE "false"

\* ScanTransaction that asks the facilitator after an instruction match too
ScanTransaction_FacilitatorAfterAnyMatch(t) ==
  /\ tx' = t
  /\ LET o == TxOutcome(t, senderAddress)
     IN  /\ pc' = CASE o = "false" -> "done"
                    [] o \in {"facilitator", "logA", "logB"} -> "facilitator"
                    [] o = "catch" -> "catch"
         /\ verdict' = IF o = "false" THEN "false" ELSE verdict
         /\ via' = CASE o = "facilitator" -> "balance"
                     [] o = "logA" -> "instruction"
                     [] o = "logB" -> "inner"
                     [] o \in {"false", "catch"} -> via

\* the scan of the fetched transaction t, up to the next await or return
ScanTransaction(t) ==
  /\ tx' = t
  /\ LET o == TxOutcome(t, senderAddress)
     IN  /\ pc' = CASE o = "false" -> "done"
                    [] o = "facilitator" -> "facilitator"
                    [] o = "catch" -> "catch"
                    [] o \in {"logA", "logB"} -> "logToDB"
         /\ verdict' = IF o = "false" THEN "false" ELSE verdict
         /\ via' = CASE o = "facilitator" -> "balance"
                     [] o = "logA" -> "instruction"
                     [] o = "logB" -> "inner"
                     [] o \in {"false", "catch"} -> via

\* ParsedOutcome that falls back to the raw RPC when the call throws
ParsedOutcome_FallbackOnThrow(r) ==
  IF r.kind = "throw" \/ r.kind = "null" THEN "fallback" ELSE "scan"

\* Step 2, what the code does with the answer r of getParsedTransaction:
\* "null" (returned), "fallback" (raw RPC) or "scan" (a transaction came)
ParsedOutcome(r) ==
  IF r.kind = "throw" THEN "null"
  ELSE IF r.kind = "null" THEN "fallback"
  ELSE "scan"

\* Step 2 with the answer drawn from R and the record from T
GetParsedTransactionFrom(R, T) ==
  /\ pc = "getParsedTransaction"
  /\ \E r \in R :
       /\ parsedResp' = r
       /\ calls' = [calls EXCEPT !.parsed = @ + 1]
       /\ LET o == ParsedOutcome(r)
          IN  IF o = "null" THEN Return("null") /\ UNCHANGED <<tx, via>>
              ELSE IF o = "fallback"
                THEN pc' = "heliusRpcPost" /\ UNCHANGED <<tx, via, verdict>>
              ELSE \E t \in T : ScanTransaction(t)
  /\ UNCHANGED <<senderAddress, sigStatus, rawResp, facResp>>
  /\ UNCHANGED <<txId, logged, prev>>
  /\ UNCHANGED serverVars

\* Step 2: fetch parsed transaction once
GetParsedTransaction == GetParsedTransactionFrom(ParsedResponses, Transactions)

\* what the code does with the answer r of the raw getTransaction call:
\* "scan" (tx = result), "null" (returned) or "catch" (msg.includes is not a
\* function when msg is the error object: the TypeError leaves the handler)
RawOutcome(r) ==
  IF r.kind = "error" THEN "null"
  ELSE IF r.kind = "result" THEN "scan"
  ELSE IF r.kind = "empty" THEN "null"
  ELSE IF r.message = "" /\ ~r.isString THEN "catch"
  ELSE IF IsRateLimited(r.message) THEN "null"
  ELSE "null"

\* the raw fallback with the answer drawn from R and the record from T
HeliusRpcPostFrom(R, T) ==
  /\ pc = "heliusRpcPost"
  /\ \E r \in R :
       /\ rawResp' = r
       /\ calls' = [calls EXCEPT !.raw = @ + 1]
       /\ LET o == RawOutcome(r)
          IN  IF o = "scan" THEN \E t \in T : ScanTransaction(t)
              ELSE IF o = "catch"
                THEN pc' = "catch" /\ UNCHANGED <<tx, via, verdict>>
              ELSE Return("null") /\ UNCHANGED <<tx, via>>
  /\ UNCHANGED <<senderAddress, sigStatus, parsedResp, facResp>>
  /\ UNCHANGED <<txId, logged, prev>>
  /\ UNCHANGED serverVars

\* RPC getTransaction fallback
HeliusRpcPost == HeliusRpcPostFrom(RawResponses, RawTransactions)

\* FacilitatorOutcome that never refuses
FacilitatorOutcome_FailOpen(r) == "log"

\* what the code does with the facilitator's answer r: "false" (returned) or
\* "log" (go on to the success record)
FacilitatorOutcome(r) ==
  IF r = "throw" \/ r = "nodata" THEN "log"
  ELSE IF r # "valid" THEN "false"
  ELSE "log"

\* optional facilitator check of the qualifying balance entry
Facilitator ==
  /\ pc = "facilitator"
  /\ \E r \in FacResponses :
       /\ facResp' = r
       /\ calls' = [calls EXCEPT !.fac = @ + 1]
       /\ IF FacilitatorOutcome(r) = "false" THEN Return("false")
          ELSE pc' = "logToDB" /\ verdict' = verdict
  /\ UNCHANGED <<senderAddress, sigStatus, parsedResp, rawResp, tx, via>>
  /\ UNCHANGED <<txId, logged, prev>>
  /\ UNCHANGED serverVars

\* logToDB(type, details, statut): nothing without a pool or with
\* dbAvailable false; else one INSERT INTO logs, whose failure is caught and
\* logged, so the caller always goes on
logToDB(statut) ==
  IF ~db.pool \/ ~db.dbAvailable THEN db' = db
  ELSE \/ Len(db.logs) < MaxRows /\ db' = [db EXCEPT !.logs = Append(@, statut)]
       \/ db' = db

\* a verifier that looks for a success record of the same reference written by
\* the other call in flight, and refuses the second use
LogSuccess_OncePerReference ==
  /\ pc = "logToDB"
  /\ IF \E i \in DOMAIN other.logged :
          other.logged[i].statut = "success" /\ other.logged[i].txId = txId
       THEN Return("false") /\ UNCHANGED <<calls, logged>>
       ELSE /\ calls' = [calls EXCEPT !.logOk = @ + 1]
            /\ logged' = Append(logged, LogRow("success", txId, senderAddress,
                                                X402_RECEIVER_ADDRESS, "confirmed"))
            /\ Return("true")
  /\ UNCHANGED <<senderAddress, sigStatus, parsedResp, rawResp, facResp, tx, via>>
  /\ UNCHANGED <<txId, prev>>
  /\ UNCHANGED serverVars

\* return true without the success record
LogSuccess_NoRecord ==
  /\ pc = "logToDB"
  /\ Return("true")
  /\ UNCHANGED <<senderAddress, sigStatus, parsedResp, rawResp, facResp, tx, via>>
  /\ UNCHANGED <<txId, prev, calls, logged>>
  /\ UNCHANGED serverVars

\* a success record whose failed insert is thrown on to the outer catch
LogSuccess_InsertThrows ==
  /\ pc = "logToDB"
  /\ calls' = [calls EXCEPT !.logOk = @ + 1]
  /\ logged' = Append(logged, LogRow("success", txId, senderAddress,
                                      X402_RECEIVER_ADDRESS, "confirmed"))
  /\ IF ~db.pool \/ ~db.dbAvailable THEN db' = db /\ Return("true")
     ELSE \/ /\ Len(db.logs) < MaxRows
             /\ db' = [db EXCEPT !.logs = Append(@, "success")]
             /\ Return("true")
          \/ db' = db /\ pc' = "catch" /\ verdict' = verdict
  /\ UNCHANGED <<senderAddress, sigStatus, parsedResp, rawResp, facResp, tx, via>>
  /\ UNCHANGED <<txId, prev>>
  /\ UNCHANGED <<other, gate, proxy, page>>

\* await logToDB('payment', {..., status: 'confirmed'}, 'success'); return true
LogSuccess ==
  /\ pc = "logToDB"
  /\ calls' = [calls EXCEPT !.logOk = @ + 1]
  /\ logged' = Append(logged, LogRow("success", txId, senderAddress,
                                      X402_RECEIVER_ADDRESS, "confirmed"))
  /\ logToDB("success")
  /\ Return("true")
  /\ UNCHANGED <<senderAddress, sigStatus, parsedResp, rawResp, facResp, tx, via>>
  /\ UNCHANGED <<txId, prev>>
  /\ UNCHANGED <<other, gate, proxy, page>>

\* an outer catch that throws the error on to the caller
Catch_Rethrow ==
  /\ pc = "catch"
  /\ pc' = "thrown"
  /\ UNCHANGED <<senderAddress, sigStatus, parsedResp, rawResp, facResp, tx, via>>
  /\ UNCHANGED <<txId, prev, calls, logged, verdict>>
  /\ UNCHANGED serverVars

\* the outer catch: await logToDB('payment', {txId, error}, 'failed'); return false
Catch ==
  /\ pc = "catch"
  /\ calls' = [calls EXCEPT !.logFail = @ + 1]
  /\ logged' = Append(logged, LogRow("failed", txId, Nil, Nil, Nil))
  /\ logToDB("failed")
  /\ Return("false")
  /\ UNCHANGED <<senderAddress, sigStatus, parsedResp, rawResp, facResp, tx, via>>
  /\ UNCHANGED <<txId, prev>>
  /\ UNCHANGED <<other, gate, proxy, page>>

Next ==
  \/ Call
  \/ GetSignatureStatuses
  \/ GetParsedTransaction
  \/ HeliusRpcPost
  \/ Facilitator
  \/ LogSuccess
  \/ Catch

Spec == Init /\ [][Next]_vars

-----------------------------------------------------------------------------
(* Repeated calls: the same handler called again, with the call that ended   *)
(* kept in prev; the answers are drawn from the settled statuses and from    *)
(* the transactions of at most one entry                                     *)

RepeatTxIds == {"SIG_1", "SIG_2"}

RepeatStatuses ==
  { r \in StatusResponses :
      r.kind = "status" /\ r.confirmationStatus \in {"confirmed", "finalized"} }

RepeatParsed ==
  { r \in ParsedResponses : r.kind # "throw" \/ r.message = "socket hang up" }

RepeatRaw ==
  { r \in RawResponses :
      r.kind \in {"result", "empty"} \/ (r.kind = "throw" /\ r.message = "") }

RepeatTransactions == { t \in Transactions : TxSize(t) <= 1 }

\* a request handler calls verifyUSDCTransfer again
CallAgain ==
  Enter(RepeatTxIds, Senders,
        [valid |-> pc = "done", txId |-> txId, senderAddress |-> senderAddress,
         sigStatus |-> sigStatus, tx |-> tx, facResp |-> facResp,
         verdict |-> verdict])
  /\ UNCHANGED serverVars

NextRepeat ==
  \/ CallAgain
  \/ GetSignatureStatusesFrom(RepeatStatuses)
  \/ GetParsedTransactionFrom(RepeatParsed, RepeatTransactions)
  \/ HeliusRpcPostFrom(RepeatRaw, RepeatTransactions)
  \/ Facilitator
  \/ LogSuccess
  \/ Catch

SpecRepeat == Init /\ [][NextRepeat]_vars

\* every network call and every logToDB call returns: a call that can take a
\* step takes it.  The answers are all those of Spec; the transactions are
\* those of at most one entry.
NextReturns ==
  \/ Call
  \/ GetSignatureStatuses
  \/ GetParsedTransactionFrom(ParsedResponses, RepeatTransactions)
  \/ HeliusRpcPostFrom(RawResponses, RepeatTransactions)
  \/ Facilitator
  \/ LogSuccess
  \/ Catch

SpecReturns == Init /\ [][NextReturns]_vars /\ WF_vars(NextReturns)

-----------------------------------------------------------------------------
(* Two calls in flight: verifyUSDCTransfer is async, so while one call waits *)
(* at an await the event loop may run another.  The suspended call's locals  *)
(* are kept in other; the answers are those of a finalized transaction of at *)
(* most one entry.                                                           *)

ConcStatuses == { r \in RepeatStatuses : r.confirmationStatus = "finalized" }

ConcParsed == { r \in RepeatParsed : r.kind # "throw" }

ConcRaw == { r \in RepeatRaw : r.kind # "throw" }

\* the locals of the running call
Locals ==
  [pc |-> pc, senderAddress |-> senderAddress, sigStatus |-> sigStatus,
   parsedResp |-> parsedResp, rawResp |-> rawResp, facResp |-> facResp,
   tx |-> tx, via |-> via, verdict |-> verdict, calls |-> calls,
   txId |-> txId, logged |-> logged]

\* the running call waits at an await (or has returned) and the event loop
\* resumes the other one, or is free to take a new request
Switch ==
  /\ pc # "idle"
  /\ other' = Locals
  /\ pc' = other.pc /\ senderAddress' = other.senderAddress
  /\ sigStatus' = other.sigStatus /\ parsedResp' = other.parsedResp
  /\ rawResp' = other.rawResp /\ facResp' = other.facResp /\ tx' = other.tx
  /\ via' = other.via /\ verdict' = other.verdict /\ calls' = other.calls
  /\ txId' = other.txId /\ logged' = other.logged
  /\ UNCHANGED <<prev, gate, proxy, db, page>>

\* a request handler calls verifyUSDCTransfer while none or one call is in
\* flight
CallConcurrent ==
  /\ pc = "idle"
  /\ Enter(RepeatTxIds, {SENDER}, prev)
  /\ UNCHANGED serverVars

NextConcurrent ==
  \/ CallConcurrent
  \/ Switch
  \/ GetSignatureStatusesFrom(ConcStatuses)
  \/ GetParsedTransactionFrom(ConcParsed, RepeatTransactions)
  \/ HeliusRpcPostFrom(ConcRaw, RepeatTransactions)
  \/ Facilitator
  \/ LogSuccess
  \/ Catch

SpecConcurrent == Init /\ [][NextConcurrent]_vars

-----------------------------------------------------------------------------
(* The /prompt handler and its Payment Gate.  The route is not part of      *)
(* src/app.js; it is modelled from sections 4.5 and 6 of the specification, *)
(* around the verifyUSDCTransfer of the source.                             *)

\* the configured number of verifier attempts ("e.g. 3 attempts")
MAX_ATTEMPTS == 3

\* checkAttestation: no facilitator configured, Valid, Invalid, Unreachable
GateFacResponses == {"none", "valid", "invalid", "unreachable"}

\* statuses the verifier sees under the gate: settled ones, an unindexed
\* signature, a rate-limited call
GateStatuses ==
  RepeatStatuses
    \cup { Resp("null", Nil, FALSE, Nil, FALSE),
           Resp("throw", "Request failed with status code 429", FALSE, Nil, FALSE) }

\* the 402 body: { message, amount, receiverAddress }
PriceBody ==
  [message |-> "Payment required", amount |-> amountAtomic,
   receiverAddress |-> X402_RECEIVER_ADDRESS]

\* no verifyUSDCTransfer call is running for the request
ResetLocals ==
  /\ pc' = "idle" /\ senderAddress' = Nil /\ sigStatus' = NoResp
  /\ parsedResp' = NoResp /\ rawResp' = NoResp /\ facResp' = Nil
  /\ tx' = NoTx /\ via' = Nil /\ verdict' = Nil /\ calls' = NoCalls
  /\ txId' = Nil /\ logged' = <<>>

\* a request arrives: with a payment (reference and claimed sender) or
\* without one, which is answered 402 at once
Request ==
  /\ gate.pc \in {"idle", "responded"}
  /\ pc \in {"idle", "done"}
  /\ \E id \in TxIds \cup {Nil}, sender \in Senders :
       gate' = IF id = Nil
                 THEN [NoGate EXCEPT !.pc = "responded", !.http = "402",
                                     !.body = PriceBody]
                 ELSE [NoGate EXCEPT !.pc = "facilitator", !.txId = id,
                                     !.sender = sender]
  /\ ResetLocals
  /\ UNCHANGED <<prev, other, proxy, db, page>>

\* step 1 without the rule that a denial is final
FacilitatorDecision_DenialFallsBack(a) ==
  IF a = "valid" THEN "Paid" ELSE "verify"

\* step 1 without the rule that an attestation is final
FacilitatorDecision_AlwaysVerify(a) ==
  IF a = "invalid" THEN "NotPaid" ELSE "verify"

\* step 1: Valid -> Paid, Invalid -> NotPaid, otherwise go on to step 2
FacilitatorDecision(a) ==
  IF a = "valid" THEN "Paid"
  ELSE IF a = "invalid" THEN "NotPaid"
  ELSE "verify"

\* a handler that calls the language model whatever settlePayment returned
Settle_AlwaysLlm(g, r) == [g EXCEPT !.result = r, !.pc = "llm"]

\* settlePayment returns r: the handler goes on to the language model or to
\* the 402 answer
Settle(g, r) ==
  [g EXCEPT !.result = r, !.pc = IF r = "Paid" THEN "llm" ELSE "respond"]

\* settlePayment, step 1: call the facilitator first
SettleFacilitator ==
  /\ gate.pc = "facilitator"
  /\ \E a \in GateFacResponses :
       LET d == FacilitatorDecision(a)
           g == [gate EXCEPT !.fac = a]
       IN  gate' = IF d = "verify" THEN [g EXCEPT !.pc = "verify"] ELSE Settle(g, d)
  /\ UNCHANGED verifyVars
  /\ UNCHANGED <<other, proxy, db, page>>

\* settlePayment, step 2: one attempt of the Transfer Verifier
RunVerifier ==
  /\ gate.pc = "verify"
  /\ Enter({gate.txId}, {gate.sender}, prev)
  /\ gate' = [gate EXCEPT !.pc = "verifying", !.attempts = @ + 1]
  /\ UNCHANGED <<other, proxy, db, page>>

\* step 2 retrying after a Rejected verdict as well
VerdictDecision_RetryOnRejected(v, attempts) ==
  IF v = "true" THEN "Paid"
  ELSE IF attempts < MAX_ATTEMPTS THEN "retry"
  ELSE "NotPaid"

\* step 2 without the bound on the attempts
VerdictDecision_Unbounded(v, attempts) ==
  IF v = "true" THEN "Paid"
  ELSE IF v = "false" THEN "NotPaid"
  ELSE "retry"

\* step 2: Confirmed -> Paid, Rejected -> NotPaid, Inconclusive -> retry
\* while attempts are left, NotPaid when they are exhausted
VerdictDecision(v, attempts) ==
  IF v = "true" THEN "Paid"
  ELSE IF v = "false" THEN "NotPaid"
  ELSE IF attempts < MAX_ATTEMPTS THEN "retry"
  ELSE "NotPaid"

\* the verifier returned
SettleVerdict ==
  /\ gate.pc = "verifying" /\ pc = "done"
  /\ LET d == VerdictDecision(verdict, gate.attempts)
     IN  gate' = IF d = "retry" THEN [gate EXCEPT !.pc = "delay"] ELSE Settle(gate, d)
  /\ UNCHANGED verifyVars
  /\ UNCHANGED <<other, proxy, db, page>>

\* the fixed delay between two attempts has passed
Delay ==
  /\ gate.pc = "delay"
  /\ gate' = [gate EXCEPT !.pc = "verify"]
  /\ UNCHANGED verifyVars
  /\ UNCHANGED <<other, proxy, db, page>>

\* Paid: one call of the language model; its text is the answer, its
\* failure a generic error
CallLanguageModel ==
  /\ gate.pc = "llm"
  /\ \E out \in {"text", "error"} :
       gate' = [gate EXCEPT !.pc = "responded", !.llm = @ + 1,
                            !.http = IF out = "text" THEN "200" ELSE "500",
                            !.body = IF out = "text" THEN "refinedPrompt" ELSE "error"]
  /\ UNCHANGED verifyVars
  /\ UNCHANGED <<other, proxy, db, page>>

\* NotPaid: 402 with the price and the receiver address
Respond402 ==
  /\ gate.pc = "respond"
  /\ gate' = [gate EXCEPT !.pc = "responded", !.http = "402", !.body = PriceBody]
  /\ UNCHANGED verifyVars
  /\ UNCHANGED <<other, proxy, db, page>>

NextGate ==
  \/ Request
  \/ SettleFacilitator
  \/ RunVerifier
  \/ GetSignatureStatusesFrom(GateStatuses)
  \/ GetParsedTransactionFrom(RepeatParsed, RepeatTransactions)
  \/ HeliusRpcPostFrom(RepeatRaw, RepeatTransactions)
  \/ Facilitator
  \/ LogSuccess
  \/ Catch
  \/ SettleVerdict
  \/ Delay
  \/ CallLanguageModel
  \/ Respond402

\* every network call returns and every continuation is run
SpecGate == Init /\ [][NextGate]_vars /\ WF_vars(NextGate)

-----------------------------------------------------------------------------
(* POST /rpc/getAccountInfo *)

\* an error status that does not look at the code
ErrorBodyStatus_Always400(code) == "400"

\* const status = code === 403 ? 403 : 400
ErrorBodyStatus(code) ==
  IF code.t = "number" /\ code.n = 403 THEN "403" ELSE "400"

\* err?.message && err.message.includes('403') ? 403 : 500
ThrownStatus(message) ==
  IF message # "" /\ Includes(message, "403") THEN "403" ELSE "500"

\* the JSON the handler sends for the account
AccountJson(v) ==
  [exists |-> TRUE, lamports |-> v.lamports, owner |-> v.owner,
   executable |-> (v.executable = "true"),
   data |-> IF v.data = "array" THEN "base64" ELSE Nil]

\* the handler is entered: without a pubkey it answers 400 at once
ProxyRequest ==
  /\ proxy.pc \in {"idle", "responded"}
  /\ \E pk \in ProxyPubkeys :
       proxy' = IF pk = Nil \/ pk = ""
                  THEN [NoProxy EXCEPT !.pc = "responded", !.pubkey = pk,
                                       !.http = "400",
                                       !.body = [error |-> "pubkey required"]]
                  ELSE [NoProxy EXCEPT !.pc = "heliusRpcPost", !.pubkey = pk]
  /\ UNCHANGED verifyVars
  /\ UNCHANGED <<other, gate, db, page>>

\* await heliusRpcPost('getAccountInfo', ...) returns or throws
ProxyRpc ==
  /\ proxy.pc = "heliusRpcPost"
  /\ \E r \in ProxyAnswers :
       LET p == [proxy EXCEPT !.rpc = r, !.rpcCalls = @ + 1]
       IN  proxy' =
             IF r.kind = "throw" THEN [p EXCEPT !.pc = "catch"]
             ELSE IF r.kind = "error"
               THEN [p EXCEPT !.pc = "responded", !.http = ErrorBodyStatus(r.code),
                       !.body = [error |-> IF r.message = Nil THEN "RPC error"
                                           ELSE r.message,
                                 code |-> r.code]]
             ELSE IF r.value.null
               THEN [p EXCEPT !.pc = "responded", !.http = "200",
                       !.body = [exists |-> FALSE, account |-> Nil]]
             ELSE [p EXCEPT !.pc = "responded", !.http = "200",
                     !.body = AccountJson(r.value)]
  /\ UNCHANGED verifyVars
  /\ UNCHANGED <<other, gate, db, page>>

\* the catch: await logToDB('rpc_getAccountInfo', ..., 'error'), then 403 or 500
ProxyCatch ==
  /\ proxy.pc = "catch"
  /\ LET st == ThrownStatus(proxy.rpc.message)
     IN  proxy' = [proxy EXCEPT
                     !.pc = "responded", !.logged = @ + 1, !.http = st,
                     !.body = IF st = "403"
                                THEN [error |-> "Access forbidden to RPC provider",
                                      details |-> proxy.rpc.message]
                                ELSE [error |-> IF proxy.rpc.message = ""
                                                  THEN "unknown"
                                                  ELSE proxy.rpc.message]]
  /\ UNCHANGED verifyVars
  /\ UNCHANGED <<other, gate, db, page>>

NextProxy ==
  \/ ProxyRequest
  \/ ProxyRpc
  \/ ProxyCatch

SpecProxy == Init /\ [][NextProxy]_vars

-----------------------------------------------------------------------------
(* The purchases table: pool, initDB, savePurchase, updatePurchase *)

\* the columns updatePurchase looks for in updates
UpdateColumns == {"refined_prompt", "status", "error_message"}

PurchaseColumns ==
  {"id", "wallet_address", "objectif", "details", "tx_id"} \cup UpdateColumns

\* the updates argument: an object with some of the three fields (null is
\* a value), possibly with a field the function does not look for, or no
\* object at all
Update(null, r, st, e, t) ==
  [null |-> null, refined_prompt |-> r, status |-> st, error_message |-> e,
   tx_id |-> t]

Updates ==
  { Update(FALSE, Undefined, Undefined, Undefined, Undefined),
    Update(FALSE, "PROMPT", "completed", Undefined, Undefined),
    Update(FALSE, Undefined, Undefined, "LLM error", Undefined),
    Update(FALSE, Undefined, Undefined, Nil, Undefined),
    Update(FALSE, Undefined, Undefined, Undefined, "SIG_2"),
    Update(FALSE, "PROMPT", "completed", Undefined, "SIG_2"),
    Update(TRUE, Undefined, Undefined, Undefined, Undefined) }

\* new Pool(...) with DATABASE_URL set: dbAvailable = true
CreatePool ==
  /\ ~db.pool /\ db.init = "pending"
  /\ db' = [db EXCEPT !.pool = TRUE, !.dbAvailable = TRUE, !.last = NoStoreCall]
  /\ UNCHANGED verifyVars
  /\ UNCHANGED <<other, gate, proxy, page>>

\* initDB(): nothing without a pool; else the tables are created and
\* dbAvailable is set, or the catch clears it
InitDB ==
  /\ db.init = "pending"
  /\ \E ok \in BOOLEAN :
       db' = IF ~db.pool THEN [db EXCEPT !.init = "done", !.last = NoStoreCall]
             ELSE [db EXCEPT !.init = "done", !.dbAvailable = ok,
                             !.last = NoStoreCall]
  /\ UNCHANGED verifyVars
  /\ UNCHANGED <<other, gate, proxy, page>>

\* savePurchase(walletAddress, objectif, details, null, txId, 'pending'):
\* INSERT ... RETURNING id; a failed insert is logged and leaves no row
SavePurchase ==
  /\ Len(db.purchases) < MaxRows
  /\ \E ok \in BOOLEAN :
       db' = IF ~db.pool \/ ~db.dbAvailable
               THEN [db EXCEPT !.last = NoStoreCall]
             ELSE IF ~ok
               THEN [db EXCEPT !.last = NoStoreCall]
             ELSE [db EXCEPT
                     !.last = NoStoreCall,
                     !.purchases =
                        Append(@, [id |-> Len(@) + 1, wallet_address |-> SENDER,
                                   objectif |-> "objectif", details |-> "details",
                                   refined_prompt |-> Nil, tx_id |-> "SIG_1",
                                   status |-> "pending", error_message |-> Nil])]
  /\ UNCHANGED verifyVars
  /\ UNCHANGED <<other, gate, proxy, page>>

\* the columns for which updatePurchase pushes "col = $n"; reading a field
\* of a missing updates object throws inside the try, before any query
SetColumns(u) ==
  IF u.null THEN {} ELSE { c \in UpdateColumns : u[c] # Undefined }

\* an UPDATE that writes the three columns whether supplied or not
UpdatedRow_AllColumns(row, u) ==
  [c \in DOMAIN row |->
     IF c \in UpdateColumns THEN (IF u[c] = Undefined THEN Nil ELSE u[c])
     ELSE row[c]]

\* UPDATE purchases SET <the pushed columns> on one row
UpdatedRow(row, u) ==
  [c \in DOMAIN row |-> IF c \in SetColumns(u) THEN u[c] ELSE row[c]]

\* updatePurchase(purchaseId, updates); id 0 stands for a missing id (any
\* falsy purchaseId) and the id after the last row for one that matches no
\* row; a failed query is logged and changes nothing
UpdatePurchase ==
  /\ \E id \in 0..(Len(db.purchases) + 1), u \in Updates :
       LET call(n) == [op |-> "updatePurchase", id |-> id, updates |-> u,
                       queries |-> n]
       IN  IF ~db.pool \/ ~db.dbAvailable \/ id = 0 \/ SetColumns(u) = {}
             THEN db' = [db EXCEPT !.last = call(0)]
             ELSE \/ db' = [db EXCEPT
                              !.last = call(1),
                              !.purchases =
                                 [i \in DOMAIN @ |->
                                    IF @[i].id = id THEN UpdatedRow(@[i], u)
                                    ELSE @[i]]]
                  \/ db' = [db EXCEPT !.last = call(1)]
  /\ UNCHANGED verifyVars
  /\ UNCHANGED <<other, gate, proxy, page>>

NextStore ==
  \/ CreatePool
  \/ InitDB
  \/ SavePurchase
  \/ UpdatePurchase

SpecStore == Init /\ [][NextStore]_vars

-----------------------------------------------------------------------------
(* The verifier next to the store: calls of verifyUSDCTransfer for one       *)
(* reference and sender, interleaved with the creation of the pool and the   *)
(* un-awaited initDB; an INSERT of logToDB succeeds or fails                 *)

\* a request handler calls verifyUSDCTransfer while the store comes up
CallLogged ==
  Enter(TxIds, {SENDER},
        [valid |-> pc = "done", txId |-> txId, senderAddress |-> senderAddress,
         sigStatus |-> sigStatus, tx |-> tx, facResp |-> facResp,
         verdict |-> verdict])
  /\ UNCHANGED serverVars

\* the answers on which the call goes on to the next step
LoggedStatuses == { r \in StatusResponses : StatusOutcome(r) = "fetch" }
LoggedParsed == { r \in ParsedResponses : ParsedOutcome(r) = "scan" }

NextLogged ==
  \/ CreatePool
  \/ InitDB
  \/ CallLogged
  \/ GetSignatureStatusesFrom(LoggedStatuses)
  \/ GetParsedTransactionFrom(LoggedParsed, RepeatTransactions)
  \/ Facilitator
  \/ LogSuccess
  \/ Catch

SpecLogged == Init /\ [][NextLogged]_vars

-----------------------------------------------------------------------------
(* The browser page: connectPhantom, disconnectPhantom and the submit        *)
(* handler of the prompt form, one step per stretch of code between awaits  *)

\* the accounts the Phantom extension can connect
PhantomAccounts == {SENDER, THIRD_OWNER}

BlockhashAnswers == {"ok", "http", "throw"}

\* answers of POST /rpc/simulateTransaction: 200 with the provider's result
\* (whose value.err tells whether the simulated transaction failed), 200
\* with an error field, 400 / 500, or a failed fetch
SimAnswers ==
  { [kind |-> "ok", error |-> FALSE, valueErr |-> FALSE],
    [kind |-> "ok", error |-> FALSE, valueErr |-> TRUE],
    [kind |-> "ok", error |-> TRUE,  valueErr |-> FALSE],
    [kind |-> "http", error |-> TRUE, valueErr |-> FALSE],
    [kind |-> "throw", error |-> FALSE, valueErr |-> FALSE] }

PromptAnswers == {"ok", "http", "throw"}

PageStep(pg) ==
  /\ page' = pg
  /\ UNCHANGED verifyVars
  /\ UNCHANGED <<other, gate, proxy, db>>

\* connectPhantom up to "await provider.connect()"
ConnectStart ==
  /\ page.connectShown /\ ~page.connecting
  /\ PageStep([page EXCEPT !.provider = TRUE, !.connecting = TRUE])

\* connectPhantom after the await: the wallet is read from the provider and
\* the form is shown, or the catch reports the refusal
ConnectDone ==
  /\ page.connecting
  /\ \/ \E a \in PhantomAccounts :
          PageStep([page EXCEPT !.connecting = FALSE, !.phantom = a,
                                !.wallet = a, !.connectShown = FALSE,
                                !.formShown = TRUE, !.linkShown = TRUE])
     \/ PageStep([page EXCEPT !.connecting = FALSE])

\* disconnectPhantom up to "await provider.disconnect()"
DisconnectStart ==
  /\ page.linkShown /\ ~page.disconnecting
  /\ PageStep([page EXCEPT !.disconnecting = TRUE])

\* disconnectPhantom after the await: "Reset UI state"
DisconnectDone ==
  /\ page.disconnecting
  /\ PageStep([page EXCEPT !.disconnecting = FALSE, !.phantom = Nil,
                           !.wallet = Nil, !.provider = FALSE,
                           !.connectShown = TRUE, !.formShown = FALSE,
                           !.linkShown = FALSE])

\* catch (err) { show the error } finally { submitBtn.disabled = false }
Failed(pg) == [pg EXCEPT !.pc = "idle", !.failed = TRUE, !.disabled = FALSE]

\* provider.publicKey can be read and is a key
HasPublicKey == page.provider /\ page.phantom # Nil

\* the submit handler up to the fetch of /rpc/getLatestBlockhash
Submit ==
  /\ page.formShown /\ ~page.disabled /\ page.pc = "idle"
  /\ IF page.wallet = Nil THEN PageStep(page)
     ELSE LET pg == [page EXCEPT !.disabled = TRUE, !.failed = FALSE,
                                 !.blockhash = Nil, !.sim = NoSim,
                                 !.feePayer = Nil, !.signCalls = 0,
                                 !.signer = Nil, !.signature = Nil,
                                 !.promptCalls = 0, !.sent = Undefined]
          IN  IF ~HasPublicKey THEN PageStep(Failed(pg))
              ELSE PageStep([pg EXCEPT !.pc = "getLatestBlockhash"])

\* the answer of /rpc/getLatestBlockhash, then the transaction is built and
\* posted to /rpc/simulateTransaction
GetLatestBlockhash ==
  /\ page.pc = "getLatestBlockhash"
  /\ \E r \in BlockhashAnswers :
       LET pg == [page EXCEPT !.blockhash = r]
       IN  IF r # "ok" \/ ~HasPublicKey THEN PageStep(Failed(pg))
           ELSE PageStep([pg EXCEPT !.pc = "simulateTransaction",
                                    !.feePayer = page.phantom])

\* SimulateTransaction that does not look at the error field of the answer
SimulateTransaction_NoErrorTest ==
  /\ page.pc = "simulateTransaction"
  /\ \E r \in SimAnswers :
       LET pg == [page EXCEPT !.sim = r]
       IN  IF r.kind # "ok" THEN PageStep(Failed(pg))
           ELSE IF ~page.provider THEN PageStep(Failed(pg))
           ELSE PageStep([pg EXCEPT !.pc = "signAndSendTransaction",
                                    !.signCalls = @ + 1])

\* the answer of /rpc/simulateTransaction, then
\* provider.signAndSendTransaction(transaction) is called
SimulateTransaction ==
  /\ page.pc = "simulateTransaction"
  /\ \E r \in SimAnswers :
       LET pg == [page EXCEPT !.sim = r]
       IN  IF r.kind # "ok" \/ r.error THEN PageStep(Failed(pg))
           ELSE IF ~page.provider THEN PageStep(Failed(pg))
           ELSE PageStep([pg EXCEPT !.pc = "signAndSendTransaction",
                                    !.signCalls = @ + 1])

\* the wallet signs and sends for the account it has connected, which has to
\* be the fee payer of the transaction, or rejects; then the 3 s timer is set
SignAndSendTransaction ==
  /\ page.pc = "signAndSendTransaction"
  /\ \/ /\ page.phantom # Nil /\ page.phantom = page.feePayer
        /\ PageStep([page EXCEPT !.pc = "wait", !.signer = page.phantom,
                                 !.signature = "SIG_1"])
     \/ PageStep(Failed(page))

\* the timer fired: fetch('/prompt', { ..., txId: signature,
\* senderAddress: wallet, ... })
PostPrompt ==
  /\ page.pc = "wait"
  /\ PageStep([page EXCEPT !.pc = "prompt", !.promptCalls = @ + 1,
                           !.sent = page.wallet])

\* the answer of /prompt is shown; finally the button is enabled again
PromptAnswer ==
  /\ page.pc = "prompt"
  /\ \E r \in PromptAnswers :
       IF r = "ok" THEN PageStep([page EXCEPT !.pc = "idle", !.disabled = FALSE])
       ELSE PageStep(Failed(page))

NextBrowser ==
  \/ ConnectStart
  \/ ConnectDone
  \/ DisconnectStart
  \/ DisconnectDone
  \/ Submit
  \/ GetLatestBlockhash
  \/ SimulateTransaction
  \/ SignAndSendTransaction
  \/ PostPrompt
  \/ PromptAnswer

SpecBrowser == Init /\ [][NextBrowser]_vars

TypeOK ==
  /\ pc \in {"idle", "getSignatureStatuses", "getParsedTransaction",
              "heliusRpcPost", "facilitator", "logToDB", "catch", "done"}
  /\ verdict \in {Nil, "true", "false", "null"}
  /\ (pc = "done") = (verdict # Nil)

-----------------------------------------------------------------------------
(* What a transaction says, read from its data alone *)

Receivers == {X402_RECEIVER_ADDRESS, RECV_ATA}

ReadableAmount(a) == a # NonNumeric
AmountValue(a) == IF a = AbsentAmt THEN 0 ELSE a

\* the account of a balance entry as far as the record t tells it
AccountIn(t, e) ==
  CASE e.pubkey # Nil -> e.pubkey
    [] e.pubkey = Nil /\ e.accountIndex # NoIndex ->
         IF t.hasMessage /\ (e.accountIndex + 1) \in DOMAIN accountKeys
           THEN accountKeys[e.accountIndex + 1].pubkey ELSE Nil
    [] OTHER -> IF e.accountId # Nil THEN e.accountId ELSE e.account

\* the pre entries of the token account (and mint) of the post entry e
SameAccountPre(t, e) ==
  { k \in DOMAIN t.pre :
      /\ AccountIn(t, e) # Nil
      /\ AccountIn(t, t.pre[k]) = AccountIn(t, e)
      /\ t.pre[k].mint = e.mint }

\* the balance of e's account before the transaction, zero for a new account
PreBalance(t, e) ==
  LET K == SameAccountPre(t, e)
  IN  IF K = {} THEN 0
      ELSE AmountValue(t.pre[CHOOSE k \in K : \A j \in K : k <= j].amount)

\* e is an entry of the configured mint that belongs to the receiver
ReceiverEntry(t, e) ==
  /\ e.mint = USDC_MINT
  /\ (e.owner = X402_RECEIVER_ADDRESS \/ AccountIn(t, e) \in Receivers)

\* the balance of e's account grew by at least the threshold
Gained(t, e) ==
  /\ ReadableAmount(e.amount)
  /\ AmountValue(e.amount) - PreBalance(t, e) >= amountAtomic

\* a parsed transfer of at least the threshold of the configured mint to the
\* receiver
PaysReceiver(inst) ==
  /\ inst.parsed
  /\ inst.type \in {"transfer", "transferChecked"}
  /\ inst.mint = USDC_MINT
  /\ ReadableAmount(inst.amount) /\ AmountValue(inst.amount) >= amountAtomic
  /\ {inst.destination, inst.to, inst.account} \cap Receivers # {}

InnerInstsOf(t) ==
  UNION { { t.inner[g].instructions[i] : i \in DOMAIN t.inner[g].instructions } :
          g \in DOMAIN t.inner }

\* the transaction was fetched, has a message and did not fail
Fetched == tx.present /\ ~tx.metaErr
WellFormed == Fetched /\ tx.hasMessage

\* the facilitator did not answer valid = true (step 6)
FacilitatorRefused == facResp \in {"invalid", "novalid"}

-----------------------------------------------------------------------------
(* Claims *)

\* C1: a fetched, error-free transaction in which a post entry of the
\* configured mint for the receiver's ATA exceeds the balance the same account
\* had before by at least the threshold is Confirmed (a refusal by the
\* facilitator, step 6, left aside).
C1_AtaGainConfirmed ==
  ( /\ pc = "done" /\ WellFormed
    /\ \E i \in DOMAIN tx.post :
         /\ tx.post[i].mint = USDC_MINT
         /\ AccountIn(tx, tx.post[i]) = RECV_ATA
         /\ Gained(tx, tx.post[i]) )
  => (verdict = "true" \/ FacilitatorRefused)

\* C2: a fetched, error-free transaction in which no receiver entry really
\* gained the threshold and no top-level or inner instruction pays the
\* receiver the threshold is Rejected, never Confirmed.
C2_NoGainRejected ==
  ( /\ pc = "done" /\ Fetched
    /\ \A i \in DOMAIN tx.post :
         ~(ReceiverEntry(tx, tx.post[i]) /\ Gained(tx, tx.post[i]))
    /\ \A i \in DOMAIN tx.insts : ~PaysReceiver(tx.insts[i])
    /\ \A inst \in InnerInstsOf(tx) : ~PaysReceiver(inst) )
  => verdict = "false"

\* C3: a signature status that carries an error ends the call Rejected with
\* no getParsedTransaction, no raw getTransaction and no facilitator request.
C3_StatusErrorRejects ==
  (sigStatus.kind = "status" /\ sigStatus.err)
  => ( /\ pc = "done" /\ verdict = "false"
       /\ calls.parsed = 0 /\ calls.raw = 0 /\ calls.fac = 0 )

C3_Witness ==
  /\ pc = "done" /\ sigStatus.kind = "status" /\ sigStatus.err
  /\ sigStatus.confirmationStatus = "finalized" /\ calls.status = 1

\* C4: an absent status, or an error-free status whose level is neither
\* confirmed nor finalized, ends the call Inconclusive with no transaction
\* fetch.
C4_NotSettledInconclusive ==
  ( \/ sigStatus.kind = "null"
    \/ ( /\ sigStatus.kind = "status" /\ ~sigStatus.err
         /\ sigStatus.confirmationStatus \notin {"confirmed", "finalized"} ) )
  => ( /\ pc = "done" /\ verdict = "null"
       /\ calls.parsed = 0 /\ calls.raw = 0 )

C4_Witness ==
  /\ pc = "done" /\ sigStatus.kind = "status" /\ ~sigStatus.err
  /\ sigStatus.confirmationStatus = "processed" /\ verdict = "null"

\* a message containing 429, "Too Many Requests" (any case) or "rate limit"
RateLimitShaped(m) ==
  m \in { "Request failed with status code 429", "too many requests",
          "rate limit exceeded" }

\* C5: a rate-limit-shaped error thrown by the signature-status call, or by
\* the parsed-transaction call, ends the call Inconclusive with no further
\* network or store call.
C5_RateLimitInconclusive ==
  /\ (sigStatus.kind = "throw" /\ RateLimitShaped(sigStatus.message))
     => ( /\ pc = "done" /\ verdict = "null"
          /\ calls = [NoCalls EXCEPT !.status = 1] )
  /\ (parsedResp.kind = "throw" /\ RateLimitShaped(parsedResp.message))
     => ( /\ pc = "done" /\ verdict = "null"
          /\ calls = [NoCalls EXCEPT !.status = 1, !.parsed = 1] )

C5_Witness ==
  /\ pc = "done" /\ parsedResp.kind = "throw"
  /\ parsedResp.message = "too many requests" /\ verdict = "null"

\* C6: when getParsedTransaction returns no record, exactly one raw
\* getTransaction call is issued; a result is scanned, and an RPC error, an
\* empty answer or a thrown error give Inconclusive.
C6_RawFallbackOnce ==
  (pc = "done" /\ parsedResp.kind = "null")
  => ( /\ calls.raw = 1
       /\ (rawResp.kind = "result" => tx.present)
       /\ (rawResp.kind \in {"error", "empty", "throw"} => verdict = "null") )

\* C7: a fetched transaction whose meta.err is set is Rejected, with no
\* facilitator call and no success record, whatever its balances say.
C7_MetaErrRejects ==
  (tx.present /\ tx.metaErr)
  => ( /\ pc = "done" /\ verdict = "false"
       /\ calls.fac = 0 /\ calls.logOk = 0 )

C7_Witness ==
  /\ pc = "done" /\ tx.present /\ tx.metaErr /\ tx.hasMessage
  /\ \E i \in DOMAIN tx.post :
       ReceiverEntry(tx, tx.post[i]) /\ Gained(tx, tx.post[i])

\* a failure to fetch or read chain data that is no on-chain error
AmbiguousFailure ==
  /\ ~(sigStatus.kind = "status" /\ sigStatus.err)
  /\ ~(tx.present /\ tx.metaErr)
  /\ \/ sigStatus.kind = "throw"
     \/ parsedResp.kind = "throw"
     \/ rawResp.kind = "throw"
     \/ (tx.present /\ ~tx.hasMessage)
     \/ \E i \in DOMAIN tx.insts :
          tx.insts[i].parsed /\ ~ReadableAmount(tx.insts[i].amount)

\* C8: a call that met such a failure never ends Rejected.
C8_AmbiguousNeverRejected ==
  (pc = "done" /\ AmbiguousFailure /\ ~FacilitatorRefused) => verdict # "false"

\* C9: a receiver entry of a token account that has no pre entry is compared
\* against zero: with a post amount of at least the threshold the primary
\* match qualifies it and the call is Confirmed (a refusal by the
\* facilitator, step 6, left aside).
C9_NewAccountConfirmed ==
  ( /\ pc = "done" /\ WellFormed
    /\ \E i \in DOMAIN tx.post :
         /\ ReceiverEntry(tx, tx.post[i])
         /\ SameAccountPre(tx, tx.post[i]) = {}
         /\ ReadableAmount(tx.post[i].amount)
         /\ AmountValue(tx.post[i].amount) >= amountAtomic )
  => (via = "balance" /\ (verdict = "true" \/ FacilitatorRefused))

\* by how much an amount is raised
RaiseSteps == {1, 500}

\* the transactions that differ from t by one larger post-balance or
\* instruction amount
RaisedAmounts(t) ==
       { [t EXCEPT !.post[i].amount = AmountValue(@) + d] :
           i \in {j \in DOMAIN t.post : ReadableAmount(t.post[j].amount)},
           d \in RaiseSteps }
  \cup { [t EXCEPT !.insts[i].amount = AmountValue(@) + d] :
           i \in {j \in DOMAIN t.insts : ReadableAmount(t.insts[j].amount)},
           d \in RaiseSteps }
  \cup UNION { { [t EXCEPT !.inner[g].instructions[i].amount = AmountValue(@) + d] :
                   i \in {j \in DOMAIN t.inner[g].instructions :
                            ReadableAmount(t.inner[g].instructions[j].amount)},
                   d \in RaiseSteps } : g \in DOMAIN t.inner }

AllAmountsReadable(t) ==
  /\ \A i \in DOMAIN t.post : ReadableAmount(t.post[i].amount)
  /\ \A i \in DOMAIN t.insts : ReadableAmount(t.insts[i].amount)
  /\ \A inst \in InnerInstsOf(t) : ReadableAmount(inst.amount)

ExactTransfer(inst) ==
  /\ inst.parsed /\ inst.type \in {"transfer", "transferChecked"}
  /\ inst.mint = USDC_MINT /\ inst.amount = amountAtomic
  /\ inst.destination = RECV_ATA

\* a payment of exactly the threshold, one per strategy
ExactPayment ==
  \/ /\ tx.pre = <<>>
     /\ \E i \in DOMAIN tx.post :
          ReceiverEntry(tx, tx.post[i]) /\ tx.post[i].amount = amountAtomic
  \/ /\ senderAddress = SENDER
     /\ \E i \in DOMAIN tx.insts :
          ExactTransfer(tx.insts[i]) /\ tx.insts[i].source = SENDER_ATA
  \/ \E inst \in InnerInstsOf(tx) : ExactTransfer(inst)

\* C10: qualification is monotone in the amount: a transaction in which a
\* strategy matched still matches when one post-balance or instruction amount
\* is larger, and an amount exactly equal to the threshold qualifies.
C10_MonotoneInAmount ==
  /\ (tx.present /\ via # Nil)
     => \A t2 \in RaisedAmounts(tx) :
          TxOutcome(t2, senderAddress) \in {"facilitator", "logA", "logB"}
  /\ (WellFormed /\ AllAmountsReadable(tx) /\ ExactPayment) => via # Nil

C10_Witness ==
  /\ pc = "done" /\ verdict = "true" /\ via = "instruction"
  /\ \E i \in DOMAIN tx.insts : tx.insts[i].amount = amountAtomic
  /\ RaisedAmounts(tx) # {}

\* the pre entry the scan subtracts from the post entry p of t.post: an index
\* of t.pre, 0 for the zero default
PreUsed(t, p) == PreEntryFor(t, p, resolveAccountPubkey(t, p), AtaOrNull(X402_RECEIVER_ADDRESS))

\* C11: in the balance-diff scan the pre entry subtracted from a
\* receiver-related post entry is the pre entry of the same token account and
\* mint, or zero if that account has no pre entry; a pre entry of another
\* account or mint is never used.
C11_PreOfSameAccount ==
  WellFormed
  => \A i \in DOMAIN tx.post :
       LET p == tx.post[i]
       IN  (PostEntryOutcome(tx, p) \in {"qualify", "below"})
           => /\ PreUsed(tx, p) > 0 => PreUsed(tx, p) \in SameAccountPre(tx, p)
              /\ PreUsed(tx, p) = 0 => SameAccountPre(tx, p) = {}

\* the loop body reaches the receiver test for the entry e: its account
\* resolves and its amount is an integer string
ReachesDecision(t, e) ==
  /\ ReadableAmount(e.amount)
  /\ (t.hasMessage \/ e.pubkey # Nil \/ e.accountIndex = NoIndex)

\* C12: a post entry of the configured mint is treated as receiver-related
\* iff its owner field is the receiver wallet, or its resolved account is the
\* receiver's ATA, or its resolved account is the receiver address; entries of
\* another mint, or meeting none of the three, are skipped.
C12_ReceiverRelatedIff ==
  Fetched
  => \A i \in DOMAIN tx.post :
       LET p == tx.post[i]
       IN  /\ p.mint # USDC_MINT => PostEntryOutcome(tx, p) = "skip"
           /\ (p.mint = USDC_MINT /\ ReachesDecision(tx, p))
              => ( (PostEntryOutcome(tx, p) # "skip")
                   <=> ( \/ p.owner = X402_RECEIVER_ADDRESS
                         \/ AccountIn(tx, p) = RECV_ATA
                         \/ AccountIn(tx, p) = X402_RECEIVER_ADDRESS ) )

\* one entry related by its owner alone, one by the receiver address alone,
\* and one related by nothing
C12_Witness ==
  /\ pc = "done" /\ WellFormed
  /\ \E i, j, k \in DOMAIN tx.post :
       /\ tx.post[i].owner = X402_RECEIVER_ADDRESS /\ tx.post[i].mint = USDC_MINT
       /\ AccountIn(tx, tx.post[i]) \notin Receivers
       /\ tx.post[j].owner = Nil /\ AccountIn(tx, tx.post[j]) = X402_RECEIVER_ADDRESS
       /\ tx.post[k].mint = USDC_MINT /\ ~ReceiverEntry(tx, tx.post[k])
       /\ PostEntryOutcome(tx, tx.post[k]) = "skip"

\* C13: when a balance entry qualified and the facilitator answers
\* valid = false, the call ends Rejected and no success record is written.
C13_DenialRejects ==
  facResp = "invalid"
  => (pc = "done" /\ verdict = "false" /\ calls.logOk = 0 /\ calls.fac = 1)

C13_Witness ==
  /\ pc = "done" /\ facResp = "invalid" /\ via = "balance"
  /\ \E i \in DOMAIN tx.post :
       ReceiverEntry(tx, tx.post[i]) /\ PostEntryOutcome(tx, tx.post[i]) = "qualify"

\* the facilitator call failed: a thrown error (timeout, network error,
\* non-2xx status), an answer without a body, or a body without the valid
\* field
FacilitatorUnreachable == facResp \in {"throw", "nodata", "novalid"}

\* C14: a call whose balance entry qualified and whose facilitator request
\* failed ends Confirmed, never Rejected.
C14_UnreachableFailsOpen ==
  (pc = "done" /\ via = "balance" /\ FacilitatorUnreachable) => verdict = "true"

\* source and destination named by a parsed transfer instruction
SourceIn(inst) == Or3(inst.source, inst.from, inst.account)
DestinationIn(inst) == Or3(inst.destination, inst.to, inst.account)

\* the claimed sender and, when the sender is a public key, its ATA
SenderAccounts(sender) ==
  {sender} \cup (IF sender \in Wallets
                   THEN {getAssociatedTokenAddressSync(USDC_MINT, sender)} ELSE {})

\* a parsed transfer / transferChecked of the configured mint, of at least the
\* threshold, from the claimed sender to the receiver
SenderPaysReceiver(inst, sender) ==
  /\ inst.parsed /\ inst.type \in {"transfer", "transferChecked"}
  /\ inst.mint = USDC_MINT
  /\ ReadableAmount(inst.amount) /\ AmountValue(inst.amount) >= amountAtomic
  /\ SourceIn(inst) \in SenderAccounts(sender)
  /\ DestinationIn(inst) \in Receivers

\* a parsed transfer whose amount is no integer string
UnreadableTransfer(inst) ==
  /\ inst.parsed /\ inst.type \in {"transfer", "transferChecked"}
  /\ ~ReadableAmount(inst.amount)

\* the call ended, its transaction is well formed and no balance entry
\* qualified
NoBalanceHit == pc = "done" /\ WellFormed /\ via # "balance" /\ facResp = Nil

C16_InnerMatchesLikeTopLevel ==
  /\ WellFormed
     => \A inst \in InnerInstsOf(tx) :
          (InstOutcomeB(inst) = "match") <=> (InstOutcomeA(inst, senderAddress) = "match")
  /\ (pc = "done" /\ via = "inner")
     => \E inst \in InnerInstsOf(tx) : SenderPaysReceiver(inst, senderAddress)

\* the status the fetch of the transaction waits for
SettledStatus ==
  /\ sigStatus.kind = "status" /\ ~sigStatus.err
  /\ sigStatus.confirmationStatus \in {"confirmed", "finalized"}

\* C17: within one call the steps run in the order status query, transaction
\* fetch, raw fallback, balance scan, top-level scan, inner scan, each only
\* when no earlier step decided: the transaction is fetched only after a
\* confirmed or finalized error-free status, the raw call only after
\* getParsedTransaction returned no record, the scans only on a fetched
\* error-free transaction, an instruction scan decides only when no balance
\* entry qualified, and the inner scan only when no top-level instruction
\* matched.
C17_StepOrder ==
  /\ \A c \in DOMAIN calls : calls[c] <= 1
  /\ pc # "idle" /\ pc # "getSignatureStatuses" => calls.status = 1
  /\ calls.parsed > 0 => (calls.status = 1 /\ SettledStatus)
  /\ calls.raw > 0 => (calls.parsed = 1 /\ parsedResp.kind = "null")
  /\ tx.present
     => /\ calls.parsed = 1
        /\ parsedResp.kind = "tx" \/ (calls.raw = 1 /\ rawResp.kind = "result")
  /\ pc = "done" /\ ~SettledStatus
     => (calls.parsed = 0 /\ calls.raw = 0 /\ ~tx.present /\ via = Nil)
  /\ via # Nil => Fetched
  /\ calls.fac > 0 => via = "balance"
  /\ via \in {"instruction", "inner"}
     => \A i \in DOMAIN tx.post : PostEntryOutcome(tx, tx.post[i]) # "qualify"
  /\ via = "inner"
     => \A i \in DOMAIN tx.insts : InstOutcomeA(tx.insts[i], senderAddress) # "match"

\* a call that went through every step: raw fallback, no balance entry that
\* qualifies, a top-level instruction that does not match, an inner
\* instruction that does
C17_Witness ==
  /\ pc = "done" /\ verdict = "true" /\ via = "inner"
  /\ calls.status = 1 /\ calls.parsed = 1 /\ calls.raw = 1
  /\ \E i \in DOMAIN tx.insts : InstOutcomeA(tx.insts[i], senderAddress) = "nomatch"

\* the success row of the running call
SuccessRow ==
  [type |-> "payment", statut |-> "success", status |-> "confirmed",
   txId |-> txId, sender |-> senderAddress, receiver |-> X402_RECEIVER_ADDRESS]

\* C18: a call that ends Confirmed handed exactly one row to the store, the
\* success row with its transaction reference, claimed sender and receiver,
\* in the step that returns; a call that ends Rejected or Inconclusive handed
\* no success row.
C18_SuccessRowIffConfirmed ==
  /\ [] ( pc = "done"
           => /\ verdict = "true"
                 => (logged = << SuccessRow >> /\ calls.logOk = 1)
              /\ verdict # "true"
                 => ( /\ calls.logOk = 0
                      /\ \A i \in DOMAIN logged : logged[i].statut # "success" ) )
  /\ [][ verdict' = "true"
          => (pc = "logToDB" /\ logged = <<>> /\ logged' = << SuccessRow >>) ]_vars

C18_Witness ==
  /\ pc = "done" /\ verdict = "true" /\ facResp = "valid"
  /\ logged = << SuccessRow >> /\ senderAddress = SENDER /\ txId \in TxIds

\* every matching strategy ran on the fetched transaction and none hit
Exhausted ==
  /\ WellFormed /\ via = Nil
  /\ \A i \in DOMAIN tx.insts : ~UnreadableTransfer(tx.insts[i])

\* C19: a call that ends Rejected because every strategy was exhausted, or
\* because the status or the transaction carries an on-chain error, handed no
\* row to the store.
C19_NoFailureRow ==
  ( /\ pc = "done" /\ verdict = "false"
    /\ \/ Exhausted
       \/ (sigStatus.kind = "status" /\ sigStatus.err)
       \/ (tx.present /\ tx.metaErr) )
  => (logged = <<>> /\ calls.logFail = 0 /\ calls.logOk = 0)

\* a receiver entry, a top-level and an inner instruction, none of which hit
C19_Witness ==
  /\ pc = "done" /\ verdict = "false" /\ Exhausted /\ logged = <<>>
  /\ tx.post # <<>> /\ tx.insts # <<>> /\ InnerInstsOf(tx) # {}

\* this call ended, and it had the reference, the claimed sender, the
\* finalized status and the transaction of the call before it
SameChainAnswers ==
  /\ pc = "done" /\ prev.valid
  /\ txId = prev.txId /\ senderAddress = prev.senderAddress
  /\ sigStatus = prev.sigStatus
  /\ sigStatus.kind = "status" /\ sigStatus.confirmationStatus = "finalized"
  /\ tx = prev.tx /\ (tx.present \/ sigStatus.err)

\* C20 as stated: two calls with the same reference and claimed sender that
\* see the same finalized status and the same transaction return the same
\* verdict.
C20_SameVerdictTwice == SameChainAnswers => verdict = prev.verdict

\* C20, amended: they return the same verdict when the facilitator, where it
\* is asked, also gives the same answer both times.
C20_SameVerdictSameAnswers ==
  (SameChainAnswers /\ facResp = prev.facResp) => verdict = prev.verdict

\* a confirmed payment verified a second time
C20_Witness ==
  /\ SameChainAnswers /\ facResp = prev.facResp /\ facResp = "valid"
  /\ prev.verdict = "true" /\ verdict = "true" /\ via = "balance"

\* the (mint, owner) pairs an ATA is derived for
DerivationInputs == {USDC_MINT, OTHER_MINT} \X (Wallets \cup {BAD_SENDER})

NoChainCall == gate.attempts = 0 /\ pc = "idle" /\ calls = NoCalls

\* C22: when the facilitator answers valid = false, settlePayment returns
\* NotPaid at once: no status query, no transaction fetch, no verifier run.
C22_DenialNoChainCall ==
  gate.fac = "invalid"
  => ( /\ gate.result = "NotPaid" /\ gate.pc \in {"respond", "responded"}
       /\ NoChainCall /\ gate.llm = 0 )

C22_Witness ==
  /\ gate.pc = "responded" /\ gate.fac = "invalid" /\ gate.http = "402"
  /\ gate.txId \in TxIds /\ NoChainCall

\* C23: when the facilitator answers Valid, settlePayment returns Paid
\* without running the verifier; when it is unreachable the gate decides
\* nothing itself and passes to the verifier.
C23_AttestationSkipsVerifier ==
  /\ gate.fac = "valid"
     => (gate.result = "Paid" /\ gate.pc \in {"llm", "responded"} /\ NoChainCall)
  /\ gate.fac = "unreachable"
     => ( /\ gate.pc = "verify" /\ gate.attempts = 0 => gate.result = Nil
          /\ gate.result # Nil => (gate.attempts >= 1 /\ pc = "done") )

C23_Witness ==
  /\ gate.pc = "responded" /\ gate.fac = "valid" /\ gate.result = "Paid"
  /\ gate.http = "200" /\ NoChainCall

\* C24: the verifier runs at most MAX_ATTEMPTS times per settlePayment, a
\* further attempt follows only an Inconclusive verdict, attempts exhausted
\* while still Inconclusive give NotPaid, and every settlePayment returns.
C24_BoundedRetries ==
  /\ [](gate.attempts <= MAX_ATTEMPTS)
  /\ []( (gate.result # Nil /\ gate.attempts >= 1 /\ verdict = "null")
          => (gate.result = "NotPaid" /\ gate.attempts = MAX_ATTEMPTS) )
  /\ [][ (gate'.attempts > gate.attempts /\ gate.attempts > 0)
          => (pc = "done" /\ verdict = "null") ]_vars
  /\ (gate.pc = "facilitator") ~> (gate.result # Nil)

\* the status call was rate limited on every attempt
C24_Witness ==
  /\ gate.result = "NotPaid" /\ gate.attempts = MAX_ATTEMPTS
  /\ pc = "done" /\ verdict = "null"
  /\ sigStatus.kind = "throw" /\ RateLimitShaped(sigStatus.message)

\* C25: the retry loop stops at the first decisive verdict: Confirmed gives
\* Paid, Rejected gives NotPaid, and the verifier is not called again.
C25_StopsAtDecisive ==
  /\ (gate.attempts >= 1 /\ pc = "done" /\ gate.pc # "verifying")
     => /\ verdict = "true" => gate.result = "Paid"
        /\ verdict = "false" => gate.result = "NotPaid"
        /\ verdict \in {"true", "false"} => gate.pc \in {"llm", "respond", "responded"}
  /\ (gate.attempts >= 1 /\ gate.pc \in {"delay", "verify"})
     => (pc = "done" /\ verdict = "null" /\ gate.result = Nil)
  /\ (gate.attempts >= 2 /\ gate.pc = "verifying") => gate.result = Nil

\* Inconclusive first, Confirmed by a qualifying balance next: Paid after
\* exactly two attempts
C25_Witness ==
  /\ gate.result = "Paid" /\ gate.attempts = 2
  /\ pc = "done" /\ verdict = "true" /\ via = "balance"

\* C26: per request the language model is called at most once and only
\* after settlePayment returned Paid; a request whose payment is missing or
\* not confirmed is answered 402 with the price and the receiver address, and
\* no language-model call is made.
C26_OneCallAfterPaid ==
  /\ gate.llm <= 1
  /\ gate.llm = 1 => gate.result = "Paid"
  /\ (gate.pc = "responded" /\ gate.result = "Paid") => gate.llm = 1
  /\ (gate.pc = "responded" /\ gate.result # "Paid")
     => ( /\ gate.llm = 0 /\ gate.http = "402"
          /\ gate.body = [message |-> "Payment required", amount |-> amountAtomic,
                           receiverAddress |-> X402_RECEIVER_ADDRESS] )

C26_Witness ==
  /\ gate.pc = "responded" /\ gate.result = "NotPaid" /\ gate.attempts >= 1
  /\ verdict = "false" /\ gate.http = "402" /\ gate.llm = 0

\* both calls have returned and were given the same reference, the same
\* claimed sender and the same answers
SameAnswersInFlight ==
  /\ pc = "done" /\ other.pc = "done"
  /\ txId = other.txId /\ senderAddress = other.senderAddress
  /\ sigStatus = other.sigStatus /\ parsedResp = other.parsedResp
  /\ rawResp = other.rawResp /\ tx = other.tx /\ facResp = other.facResp

\* C27: no state ties a reference to a single use: of two interleaved
\* verifications of the same reference given the same answers, neither is
\* influenced by the other: they return the same verdict, and when it is
\* Confirmed each has appended its own success record.
C27_NoSingleUseState ==
  SameAnswersInFlight
  => /\ verdict = other.verdict /\ via = other.via
     /\ calls = other.calls
     /\ logged = other.logged
     /\ verdict = "true" => logged = <<SuccessRow>>

C27_Witness ==
  /\ SameAnswersInFlight
  /\ verdict = "true" /\ other.verdict = "true"
  /\ Len(logged) = 1 /\ Len(other.logged) = 1
  /\ logged[1].txId = other.logged[1].txId

\* the provider refused access: an error body whose code is the number 403,
\* or a thrown error whose message contains 403
Provider403 ==
     \/ proxy.rpc.kind = "error" /\ proxy.rpc.code = ErrorCode("number", 403)
     \/ /\ proxy.rpc.kind = "throw"
        /\ proxy.rpc.message \in { "Request failed with status code 403",
                                    "timeout of 14030ms exceeded" }

\* C28: the account-info proxy answers 403 exactly when the provider's error
\* body has code 403 or the thrown error's message contains 403; any other
\* error body gives 400, any other thrown error 500, and a request without
\* pubkey gives 400 without any RPC call.
C28_Provider403Distinct ==
  proxy.pc = "responded"
  => /\ (proxy.http = "403") = Provider403
     /\ (proxy.rpc.kind = "error" /\ ~Provider403)
        => proxy.http = "400"
     /\ (proxy.rpc.kind = "throw" /\ ~Provider403)
        => proxy.http = "500"
     /\ proxy.pubkey \in {Nil, ""}
        => (proxy.http = "400" /\ proxy.rpcCalls = 0 /\ proxy.rpc.kind = "none")
     /\ proxy.rpcCalls <= 1

C28_Witness ==
  /\ proxy.pc = "responded" /\ proxy.http = "403"
  /\ proxy.rpc.kind = "throw" /\ proxy.rpcCalls = 1 /\ proxy.logged = 1

\* C29: an updatePurchase call changes at most the one row whose id was
\* given, and in it only the columns supplied among refined_prompt, status
\* and error_message, which take the supplied values; with a missing id, an
\* unavailable store or no recognised field no query is issued and no row
\* changes.
C29_UpdateFrame ==
  [][ (db'.last.op = "updatePurchase" /\ db' # db)
      => LET c == db'.last
             changed == { i \in DOMAIN db.purchases :
                            db'.purchases[i] # db.purchases[i] }
         IN  /\ Len(db'.purchases) = Len(db.purchases)
             /\ Cardinality(changed) <= 1
             /\ \A i \in changed :
                  /\ db.purchases[i].id = c.id
                  /\ \A col \in PurchaseColumns :
                       db'.purchases[i][col] # db.purchases[i][col]
                       => ( /\ col \in {"refined_prompt", "status", "error_message"}
                            /\ ~c.updates.null
                            /\ c.updates[col] # Undefined
                            /\ db'.purchases[i][col] = c.updates[col] )
             /\ ( \/ c.id = 0 \/ ~db.pool \/ ~db.dbAvailable
                  \/ c.updates.null
                  \/ ( /\ c.updates.refined_prompt = Undefined
                       /\ c.updates.status = Undefined
                       /\ c.updates.error_message = Undefined ) )
                => (c.queries = 0 /\ db'.purchases = db.purchases)
             /\ c.queries <= 1
             /\ changed # {} => c.queries = 1
             /\ db'.pool = db.pool /\ db'.dbAvailable = db.dbAvailable ]_vars

\* row 2 completed with its prompt, its error_message and row 1 untouched
C29_Witness ==
  /\ db.last.op = "updatePurchase" /\ db.last.id = 2
  /\ ~db.last.updates.null
  /\ db.last.updates.error_message = Undefined
  /\ db.last.updates.tx_id = "SIG_2" /\ db.last.queries = 1
  /\ Len(db.purchases) = 2
  /\ db.purchases[2].status = "completed"
  /\ db.purchases[2].refined_prompt = "PROMPT"
  /\ db.purchases[2].error_message = "LLM error"
  /\ db.purchases[1].error_message = Nil
  /\ db.purchases[2].tx_id = "SIG_1"
  /\ db.purchases[1].status = "pending"

\* C30: every call whose awaited calls return ends with one of the three
\* verdicts (nothing is thrown to the caller), after at most one status call,
\* one getParsedTransaction call and one raw getTransaction call.
C30_EndsWithOneVerdict ==
  /\ [](calls.status <= 1 /\ calls.parsed <= 1 /\ calls.raw <= 1)
  /\ []((pc = "done") = (verdict \in {"true", "false", "null"}))
  /\ [](pc \in {"idle", "getSignatureStatuses", "getParsedTransaction",
                 "heliusRpcPost", "facilitator", "logToDB", "catch", "done"})
  /\ (pc = "getSignatureStatuses") ~> (pc = "done")

\* the raw fallback threw what the handler cannot read: caught, Rejected
C30_Witness ==
  /\ pc = "done" /\ verdict = "false" /\ rawResp.kind = "throw"
  /\ calls.status = 1 /\ calls.parsed = 1 /\ calls.raw = 1
  /\ calls.logFail = 1

-----------------------------------------------------------------------------
\* this call ended, and it saw the status and the transaction of the call
\* before it under another claimed sender; the facilitator, where both calls
\* asked it, gave both the same answer
SameAnswersOtherSender ==
  /\ pc = "done" /\ prev.valid
  /\ sigStatus = prev.sigStatus /\ tx = prev.tx
  /\ (facResp # Nil /\ prev.facResp # Nil) => facResp = prev.facResp
  /\ senderAddress # prev.senderAddress

\* C31: the balance-diff match does not depend on the claimed sender: two
\* calls that see the same chain answers and the same facilitator answer
\* under different claimed senders, one of which may be no public key at
\* all, return the same verdict whenever a balance entry qualifies.
C31_SenderIndependentMatch ==
  (SameAnswersOtherSender /\ tx.present /\ FirstQualifying(tx, 1) > 0)
  => verdict = prev.verdict

\* a payment confirmed for a wallet and again for a malformed sender
C31_Witness ==
  /\ SameAnswersOtherSender /\ tx.present /\ FirstQualifying(tx, 1) > 0
  /\ ~tx.metaErr /\ via = "balance"
  /\ prev.senderAddress = SENDER /\ senderAddress = BAD_SENDER
  /\ getAssociatedTokenAddressSync(USDC_MINT, senderAddress) = "throw"
  /\ verdict = "true" /\ prev.verdict = "true"

-----------------------------------------------------------------------------
\* C32: the facilitator is asked at most once per call and only after a
\* balance entry qualified; a call that matched in Fallback A or Fallback B
\* never asks it and is Confirmed whatever the facilitator would answer.
C32_FacilitatorOnlyAfterBalance ==
  /\ calls.fac <= 1
  /\ (calls.fac = 0) = (facResp = Nil)
  /\ (calls.fac > 0 \/ pc = "facilitator")
       => (via = "balance" /\ Fetched /\ FirstQualifying(tx, 1) > 0)
  /\ via \in {"instruction", "inner"}
       => (calls.fac = 0 /\ pc \in {"logToDB", "done"}
           /\ (pc = "done" => verdict = "true"))

\* a payment confirmed by the inner-instruction scan, the facilitator unasked
C32_Witness ==
  /\ pc = "done" /\ via = "inner" /\ verdict = "true"
  /\ calls.fac = 0 /\ facResp = Nil /\ calls.logOk = 1
  /\ FirstQualifying(tx, 1) = 0

-----------------------------------------------------------------------------
\* the transaction t without its i-th post-balance entry
RemovePost(t, i) ==
  [t EXCEPT !.post = SubSeq(@, 1, i - 1) \o SubSeq(@, i + 1, Len(@))]

\* the call that ended left the scan of its transaction through outcome o
EndedAs(o) ==
  CASE o = "false" -> verdict = "false" /\ via = Nil /\ logged = <<>>
    [] o = "facilitator" ->
         /\ via = "balance"
         /\ verdict = IF FacilitatorOutcome(facResp) = "false"
                        THEN "false" ELSE "true"
    [] o = "logA" -> via = "instruction" /\ verdict = "true"
    [] o = "logB" -> via = "inner" /\ verdict = "true"
    [] o = "catch" -> verdict = "false" /\ via = Nil /\ calls.logFail = 1

\* C33: an exception raised while one post-balance entry is evaluated is
\* confined to that entry: the call ends as it would for the same
\* transaction without that entry, through the remaining entries and then
\* the fallbacks.
C33_EntryExceptionConfined ==
  (pc = "done" /\ Fetched)
  => \A i \in DOMAIN tx.post :
       PostEntryOutcome(tx, tx.post[i]) = "throw"
       => EndedAs(TxOutcome(RemovePost(tx, i), senderAddress))

\* a non-numeric entry ahead of the entry that confirms the payment
C33_Witness ==
  /\ pc = "done" /\ Fetched /\ Len(tx.post) >= 2
  /\ PostEntryOutcome(tx, tx.post[1]) = "throw"
  /\ BigIntThrows(tx.post[1].amount)
  /\ FirstQualifying(tx, 1) = 2
  /\ via = "balance" /\ verdict = "true"

-----------------------------------------------------------------------------
\* this call ended, and it saw the status, the fetched transaction and the
\* facilitator answer of the call before it
SameAnswers ==
  /\ pc = "done" /\ prev.valid
  /\ sigStatus = prev.sigStatus /\ tx = prev.tx /\ facResp = prev.facResp
  /\ tx.present

\* C34: the store never influences the verdict: logToDB never throws (every
\* call that reached it ends with the verdict it was about to return), it
\* leaves the store alone when the pool is absent or dbAvailable is false,
\* and two calls that see the same chain and facilitator answers return the
\* same verdict whether the store is up, absent or failing on an insert.
C34_StoreNeverDecides ==
  /\ [](SameAnswers => verdict = prev.verdict)
  /\ [](pc \in {"idle", "getSignatureStatuses", "getParsedTransaction",
                "heliusRpcPost", "facilitator", "logToDB", "catch", "done"})
  /\ [][(pc = "logToDB" /\ pc' # pc) => (pc' = "done" /\ verdict' = "true")]_vars
  /\ [][(pc = "catch" /\ pc' # pc) => (pc' = "done" /\ verdict' = "false")]_vars
  /\ [][(~db.pool \/ ~db.dbAvailable) => db'.logs = db.logs]_vars

\* two confirmed calls with the same answers, only one of which left its
\* success row in the store
C34_Witness ==
  /\ SameAnswers /\ verdict = "true" /\ prev.verdict = "true"
  /\ calls.logOk = 1 /\ db.pool /\ db.logs = <<"success">>

-----------------------------------------------------------------------------
\* the simulation answered 200 without an error field
SimulationOk == page.sim.kind = "ok" /\ ~page.sim.error

-----------------------------------------------------------------------------
\* C36: in every interleaving of a payment submission in flight with
\* disconnectPhantom, the senderAddress posted to /prompt is the address of
\* the wallet that signed and sent the transaction, never null and never
\* another wallet.
C36_SenderIsSigner ==
  page.promptCalls > 0 => (page.sent = page.signer /\ page.sent # Nil)

-----------------------------------------------------------------------------
\* C37: logToDB and savePurchase issue an INSERT only after initDB has
\* created the tables: dbAvailable is true only with a pool whose initDB has
\* ended well, and no row is written while initDB is still pending.
C37_InsertOnlyAfterInit ==
  /\ db.dbAvailable => (db.pool /\ db.init = "done")
  /\ db.init = "pending" => (db.purchases = <<>> /\ db.logs = <<>>)

====
